---- MODULE Spec2Model ----
(***************************************************************************)
(* Model of the Grounded backend: the Task Store (TaskModel), the task     *)
(* controllers, the chat session store (ChatSessionModel), the agent loop  *)
(* (aiController.chat), the confirmation handlers and UserModel.           *)
(*                                                                         *)
(* Conventions.  A database table is a sequence of rows; a row's id is its *)
(* index (the database generates ids, callers never choose them).  A JS    *)
(* object is a record whose DOMAIN is the set of keys that are present.    *)
(* A time of day "HH:MM:SS" is its number of seconds since midnight, a     *)
(* date "YYYY-MM-DD" is a day number.  null / undefined / "" of a time is  *)
(* NoTime, of a date NoDate, of an id NoId, of a string Null.              *)
(***************************************************************************)
EXTENDS Integers, Sequences, FiniteSets, TLC

VARIABLES
    tasks,        \* table tasks
    subtasks,     \* table subtasks (a hard-deleted row becomes Gone)
    users,        \* table users
    sessions,     \* table chat_sessions
    messages,     \* table chat_messages
    recentChats,  \* table recent_chats: per user, queries, most recent first
    chat,         \* the agent loop of the chat invocation being executed
    resp,         \* the response sent to the last request
    requests      \* the session requests in flight: per process, where it is

vars == <<tasks, subtasks, users, sessions, messages, recentChats, chat, resp, requests>>

(***************************************************************************)
(* Bounds of the model.                                                    *)
(***************************************************************************)
MaxTasks == 1
MaxSubtasks == 1
MaxSessions == 1
MaxMessages == 3
MaxUsers == 3
MaxCalls == 2
MaxSessionRows == 3
MaxStreakTasks == 3
MaxSearchTasks == 1
MaxQueries == 12

Users == {"A", "B"}

Null == "null"
NoId == 0
NoDate == 0
NoTime == 0 - 1
Gone == [gone |-> TRUE]

Has(obj, f) == f \in DOMAIN obj
Get(obj, f, dflt) == IF f \in DOMAIN obj THEN obj[f] ELSE dflt
Without(obj, keys) == [f \in DOMAIN obj \ keys |-> obj[f]]
\* { ...a, ...b }: the keys of both, b's value where both have the key
Spread(a, b) == [f \in DOMAIN a \cup DOMAIN b |-> IF f \in DOMAIN b THEN b[f] ELSE a[f]]

Max(a, b) == IF a >= b THEN a ELSE b

(***************************************************************************)
(* Dates and times.                                                        *)
(***************************************************************************)
HourSeconds == 60 * 60
DaySeconds == 24 * HourSeconds
At(h, m) == h * HourSeconds + m * 60
\* new Date().toISOString().split("T")[0]
Today == 2

\* dt.setHours(dt.getHours() + 1) and the HH:MM:SS of the result: the Date
\* rolls into the next day and the formatted time keeps the time of day only
PlusHour(t) == (t + HourSeconds) % DaySeconds
\* dt.setHours(dt.getHours() - 1)
MinusHour(t) == (t + DaySeconds - HourSeconds) % DaySeconds

(***************************************************************************)
(* TaskModel (src/src/models/Task.ts)                                      *)
(***************************************************************************)
LiveSubtaskIds(subs) == {i \in 1..Len(subs) : subs[i] # Gone}

\* TaskModel.createSubtask: INSERT INTO subtasks.  The insert fails on a
\* missing title (NOT NULL) and on a task_id that is no row of tasks (FK).
CanCreateSubtask(ts, taskId, st) == taskId \in 1..Len(ts) /\ Get(st, "title", Null) # Null
CreateSubtaskRow(taskId, st) ==
    [task_id |-> taskId,
     title |-> st.title,
     is_completed |-> Get(st, "is_completed", FALSE),
     order_index |-> Get(st, "order_index", 0)]

RECURSIVE CreateSubtasks(_, _, _)
CreateSubtasks(subs, taskId, list) ==
    IF list = <<>> THEN subs
    ELSE CreateSubtasks(Append(subs, CreateSubtaskRow(taskId, Head(list))), taskId, Tail(list))

\* The defaulting of start_time / end_time in TaskModel.create
CreateStart(task) ==
    LET s == Get(task, "start_time", NoTime)
        e == Get(task, "end_time", NoTime)
    IN  IF s = NoTime /\ e # NoTime THEN MinusHour(e)
        ELSE IF s = NoTime /\ e = NoTime THEN At(9, 0)
        ELSE s
CreateEnd(task) ==
    LET s == CreateStart(task)
        e == Get(task, "end_time", NoTime)
    IN  IF e = NoTime /\ Get(task, "start_time", NoTime) # NoTime THEN PlusHour(s)
        ELSE IF e = NoTime THEN At(10, 0)
        ELSE e

\* The row TaskModel.create inserts
CreateRow(task) ==
    [user_id |-> task.user_id,
     title |-> Get(task, "title", Null),
     date |-> IF Get(task, "date", NoDate) # NoDate THEN task.date ELSE Today,
     start_time |-> CreateStart(task),
     end_time |-> CreateEnd(task),
     is_completed |-> Get(task, "is_completed", FALSE),
     is_deleted |-> Get(task, "is_deleted", FALSE)]

\* TaskModel.create throws: title is NOT NULL, and so does a subtask's title
CreateFails(task) ==
    \/ Get(task, "title", Null) = Null
    \/ \E i \in 1..Len(Get(task, "subtasks", <<>>)) : Get(task.subtasks[i], "title", Null) = Null

TaskCreateTasks(ts, task) == IF CreateFails(task) THEN ts ELSE Append(ts, CreateRow(task))
TaskCreateSubtasks(ts, subs, task) ==
    IF CreateFails(task) THEN subs
    ELSE CreateSubtasks(subs, Len(ts) + 1, Get(task, "subtasks", <<>>))

\* TaskModel.findById: SELECT ... WHERE id = $id AND is_deleted = false
FindById(ts, id) == IF id \in 1..Len(ts) /\ ~ts[id].is_deleted THEN id ELSE NoId
\* TaskModel.findByUserId (the ids of the rows returned)
FindByUserId(ts, uid) == {i \in 1..Len(ts) : ts[i].user_id = uid /\ ~ts[i].is_deleted}
\* TaskModel.findByUserIdAndDateRange
FindDeletedToo(ts, uid, startDate, endDate) ==
    {i \in 1..Len(ts) : /\ ts[i].user_id = uid /\ ts[i].date # NoDate
                        /\ ts[i].date >= startDate /\ ts[i].date <= endDate}
FindByUserIdAndDateRange(ts, uid, startDate, endDate) ==
    {i \in 1..Len(ts) : /\ ts[i].user_id = uid /\ ts[i].date # NoDate
                        /\ ts[i].date >= startDate /\ ts[i].date <= endDate
                        /\ ~ts[i].is_deleted}

\* TaskModel.delete: UPDATE tasks SET is_deleted = true WHERE id = $id
TaskDeleteMut(ts, id) == IF id \in 1..Len(ts) THEN SubSeq(ts, 1, id - 1) \o SubSeq(ts, id + 1, Len(ts)) ELSE ts
TaskDelete(ts, id) == IF id \in 1..Len(ts) THEN [ts EXCEPT ![id].is_deleted = TRUE] ELSE ts

\* TaskModel.update: the columns written are the keys of updates except id,
\* user_id, created_at and subtasks.  The statement fails when a value is
\* undefined or null for a NOT NULL column.
TaskColumns == {"title", "date", "start_time", "end_time", "is_completed", "is_deleted"}
UpdateData(updates) == Without(updates, {"id", "user_id", "created_at", "subtasks"})
UpdateFails(ts, id, updates) ==
    \/ Has(updates, "title") /\ updates.title = Null
    \/ Has(updates, "date") /\ updates.date = NoDate
    \/ Has(updates, "start_time") /\ updates.start_time = NoTime
    \/ Has(updates, "end_time") /\ updates.end_time = NoTime
    \/ DOMAIN UpdateData(updates) \ TaskColumns # {}
    \* the subtasks are replaced after the UPDATE: inserting one for a task
    \* that does not exist violates the foreign key
    \/ /\ Has(updates, "subtasks") /\ updates.subtasks # <<>>
       /\ \/ id \notin 1..Len(ts)
          \/ \E i \in 1..Len(updates.subtasks) : Get(updates.subtasks[i], "title", Null) = Null
TaskUpdateTasks(ts, id, updates) ==
    IF id \in 1..Len(ts) /\ ~UpdateFails(ts, id, updates)
    THEN [ts EXCEPT ![id] = Spread(@, [f \in DOMAIN UpdateData(updates) \cap TaskColumns |-> updates[f]])]
    ELSE ts
TaskUpdateSubtasks(ts, subs, id, updates) ==
    IF Has(updates, "subtasks") /\ ~UpdateFails(ts, id, updates)
    THEN CreateSubtasks([i \in 1..Len(subs) |-> IF subs[i] # Gone /\ subs[i].task_id = id THEN Gone ELSE subs[i]],
                        id, updates.subtasks)
    ELSE subs

\* TaskModel.updateSubtask: COALESCE keeps the column where the update has none
UpdateSubtaskRow(row, updates) ==
    [task_id |-> row.task_id,
     title |-> IF Get(updates, "title", Null) # Null THEN updates.title ELSE row.title,
     is_completed |-> Get(updates, "is_completed", row.is_completed),
     order_index |-> Get(updates, "order_index", row.order_index)]
TaskUpdateSubtask(subs, id, updates) ==
    IF id \in LiveSubtaskIds(subs) THEN [subs EXCEPT ![id] = UpdateSubtaskRow(@, updates)] ELSE subs
\* TaskModel.deleteSubtask: DELETE FROM subtasks WHERE id = $id
TaskDeleteSubtask(subs, id) ==
    IF id \in LiveSubtaskIds(subs) THEN [subs EXCEPT ![id] = Gone] ELSE subs

(***************************************************************************)
(* UserModel (src/src/models/User.ts)                                      *)
(***************************************************************************)
\* UserModel.findByFirebaseUid (the row's index, NoId for null)
FindUser(us, uid) ==
    IF \E i \in 1..Len(us) : us[i].firebase_uid = uid
    THEN CHOOSE i \in 1..Len(us) : us[i].firebase_uid = uid
    ELSE NoId

\* INSERT INTO users ... ON CONFLICT (firebase_uid) DO UPDATE SET email, display_name
UpsertRowsMut(us, userData) ==
    Append(us, [firebase_uid |-> userData.firebase_uid, email |-> userData.email,
                display_name |-> userData.display_name,
                current_streak |-> 0, longest_streak |-> 0, last_streak_date |-> NoDate])
UpsertRows(us, userData) ==
    LET i == FindUser(us, userData.firebase_uid)
    IN  IF i # NoId
        THEN [us EXCEPT ![i].email = userData.email, ![i].display_name = userData.display_name]
        ELSE Append(us, [firebase_uid |-> userData.firebase_uid, email |-> userData.email,
                         display_name |-> userData.display_name,
                         current_streak |-> 0, longest_streak |-> 0, last_streak_date |-> NoDate])
\* email is NOT NULL: the only way the statement of upsert fails
UpsertFails(userData) == userData.email = Null

AllCompleted(ts, ids) == \A i \in ids : ts[i].is_completed

\* The backward walk of adjustStreakAfterDate: the number of consecutive days
\* before `date` that have a task and only completed tasks
RECURSIVE CountBack(_, _, _)
CountBack(ts, uid, cursor) ==
    LET dayTasks == FindByUserIdAndDateRange(ts, uid, cursor, cursor)
    IN  IF dayTasks = {} \/ ~AllCompleted(ts, dayTasks) THEN 0
        ELSE 1 + CountBack(ts, uid, cursor - 1)

\* adjustStreakAfterDate that keeps longest_streak as it is when it counts a day
AdjustStreakKeepsLongest(us, ts, uid, date) ==
    LET i == FindUser(us, uid)
        dayTasks == FindByUserIdAndDateRange(ts, uid, date, date)
    IN  IF i = NoId \/ dayTasks = {} \/ ~AllCompleted(ts, dayTasks) \/ us[i].last_streak_date = date THEN us
        ELSE [us EXCEPT ![i].current_streak = IF us[i].last_streak_date = date - 1 THEN @ + 1 ELSE 1,
                        ![i].last_streak_date = date]

\* adjustStreakAfterDate without the test "already counted for this date"
AdjustStreakRecounts(us, ts, uid, date) ==
    LET i == FindUser(us, uid)
        dayTasks == FindByUserIdAndDateRange(ts, uid, date, date)
    IN  IF i = NoId \/ dayTasks = {} \/ ~AllCompleted(ts, dayTasks) THEN us
        ELSE LET newCurrent == IF us[i].last_streak_date = date - 1 THEN us[i].current_streak + 1 ELSE 1
             IN  [us EXCEPT ![i].current_streak = newCurrent,
                            ![i].longest_streak = Max(@, newCurrent),
                            ![i].last_streak_date = date]

\* UserModel.adjustStreakAfterDate: the users table after the call (a missing
\* user makes it throw, which every caller catches: nothing is written)
AdjustStreak(us, ts, uid, date) ==
    LET i == FindUser(us, uid)
        dayTasks == FindByUserIdAndDateRange(ts, uid, date, date)
    IN  IF i = NoId \/ dayTasks = {} THEN us
        ELSE IF AllCompleted(ts, dayTasks)
        THEN IF us[i].last_streak_date = date THEN us
             ELSE LET newCurrent == IF us[i].last_streak_date # NoDate /\ us[i].last_streak_date = date - 1
                                    THEN us[i].current_streak + 1 ELSE 1
                  IN  [us EXCEPT ![i].current_streak = newCurrent,
                                 ![i].longest_streak = Max(@, newCurrent),
                                 ![i].last_streak_date = date]
        ELSE IF us[i].last_streak_date # date THEN us
             ELSE LET count == CountBack(ts, uid, date - 1)
                  IN  [us EXCEPT ![i].current_streak = count,
                                 ![i].longest_streak = Max(@, count),
                                 ![i].last_streak_date = IF count > 0 THEN date - 1 ELSE NoDate]

(***************************************************************************)
(* aiController.confirmAction: the execution of a confirmed action         *)
(***************************************************************************)
NoData == [nodata |-> TRUE]

\* dbData: startTime / endTime become start_time / end_time, which are always
\* keys of dbData (undefined when the data has neither spelling)
DbData(data) ==
    LET st == IF Get(data, "startTime", NoTime) # NoTime THEN data.startTime ELSE Get(data, "start_time", NoTime)
        en == IF Get(data, "endTime", NoTime) # NoTime THEN data.endTime ELSE Get(data, "end_time", NoTime)
    IN  Spread(Without(data, {"startTime", "endTime"}), [start_time |-> st, end_time |-> en])

\* The handler throws (and answers 500): no data to destructure, a missing
\* id / task_id, or a failing statement of the store
ExecFails(ts, action, data) ==
    \/ data = NoData
    \/ action = "create_task" /\ CreateFails(DbData(data))
    \/ action = "update_task" /\ (Get(data, "id", NoId) = NoId \/ UpdateFails(ts, data.id, DbData(data)))
    \/ action = "delete_task" /\ Get(data, "id", NoId) = NoId
    \/ action = "create_subtask" /\ Get(data, "task_id", NoId) \notin 1..Len(ts)

ExecTasks(ts, uid, action, data) ==
    IF ExecFails(ts, action, data) THEN ts
    ELSE IF action = "create_task" THEN TaskCreateTasks(ts, Spread(DbData(data), [user_id |-> uid]))
    ELSE IF action = "update_task" THEN TaskUpdateTasks(ts, data.id, DbData(data))
    ELSE IF action = "delete_task" THEN TaskDelete(ts, data.id)
    ELSE ts

ExecSubtasks(ts, subs, uid, action, data) ==
    IF ExecFails(ts, action, data) THEN subs
    ELSE IF action = "create_task" THEN TaskCreateSubtasks(ts, subs, Spread(DbData(data), [user_id |-> uid]))
    ELSE IF action = "update_task" THEN TaskUpdateSubtasks(ts, subs, data.id, DbData(data))
    ELSE IF action = "create_subtask"
         THEN Append(subs, CreateSubtaskRow(data.task_id, [title |-> Get(data, "subtask_title", "Subtask")]))
    ELSE subs

\* replyText of the response ("" when the handler answered 500 {error})
ExecText(ts, action, data) ==
    IF ExecFails(ts, action, data) THEN ""
    ELSE IF action = "create_task" THEN "Created task"
    ELSE IF action = "update_task" THEN "Updated task"
    ELSE IF action = "delete_task" THEN "Task deleted."
    ELSE IF action = "create_subtask" THEN "Subtask created."
    ELSE "Done."

(***************************************************************************)
(* Tool executor (aiTools) and the agent loop (aiController.chat)          *)
(***************************************************************************)
MAX_ITERATIONS == 10

NoProposal == [noproposal |-> TRUE]
NoOut == [type |-> "none"]

\* String.toLowerCase and String.includes, on the texts of the model
ToLowerCase(text) == IF text \in {"Tea", "TEA"} THEN "tea" ELSE text
Includes(text, q) == q = text \/ <<text, q>> \in {<<"tea", "t">>, <<"tea", "te">>, <<"tea", "ea">>}

\* executeGetTasks: the tasks fetched and filtered, before the limit
MatchingTasks(ts, uid, args) ==
    LET base == IF Has(args, "startDate") /\ Has(args, "endDate")
                THEN FindByUserIdAndDateRange(ts, uid, args.startDate, args.endDate)
                ELSE FindByUserId(ts, uid)
        dated == IF Has(args, "date") /\ ~Has(args, "startDate")
                 THEN {i \in base : ts[i].date = args.date}
                 ELSE base
    IN  IF Get(args, "query", "") # ""
        THEN {i \in dated : \/ Includes(ToLowerCase(ts[i].title), ToLowerCase(args.query))
                            \/ /\ Get(ts[i], "description", Null) # Null
                               /\ Includes(ToLowerCase(ts[i].description), ToLowerCase(args.query))}
        ELSE dated

\* tasks.slice(0, 10) of rows that came ORDER BY date ASC, start_time ASC:
\* every set the slice can be (rows equal in date and start_time come in
\* any order)
GET_TASKS_LIMIT == 10
SliceAll(ts, ids) == {ids}
Slice(ts, ids) ==
    LET before(i, j) == \/ ts[i].date < ts[j].date
                        \/ ts[i].date = ts[j].date /\ ts[i].start_time < ts[j].start_time
        \* the rows that no order leaves out, and the rows some order keeps
        sure == {i \in ids : Cardinality({j \in ids : ~before(i, j)}) <= GET_TASKS_LIMIT}
        tied == {i \in ids \ sure : Cardinality({j \in ids : before(j, i)}) < GET_TASKS_LIMIT}
    IN  IF Cardinality(ids) <= GET_TASKS_LIMIT THEN {ids}
        ELSE {sure \cup rest : rest \in {r \in SUBSET tied : Cardinality(r) = GET_TASKS_LIMIT - Cardinality(sure)}}

\* executeGetTasks: the ids of the tasks returned (read-only)
GetTasks(ts, uid, args) == CHOOSE kept \in Slice(ts, MatchingTasks(ts, uid, args)) : TRUE

\* executeProposeAction: the envelope returned to the model; nothing is stored
ProposeAction(args) ==
    [action |-> args.action,
     data |-> Spread(Spread(IF Has(args, "task_id") THEN [id |-> args.task_id] ELSE <<>>,
                            Without(args, {"action", "task_id"})),
                     Spread(IF Has(args, "start_time") THEN [startTime |-> args.start_time] ELSE <<>>,
                            IF Has(args, "end_time") THEN [endTime |-> args.end_time] ELSE <<>>)),
     isProposal |-> TRUE]

\* The effect of a propose_action call on the task table: none
ProposeActionTasksMut(ts, uid, args) == ExecTasks(ts, uid, args.action, ProposeAction(args).data)
ProposeActionTasks(ts, uid, args) == ts

\* The result of one tool call, as appended to the conversation
ToolResult(ts, uid, call) ==
    [role |-> "tool", tool_call_id |-> call.id, name |-> call.name,
     content |-> IF call.name = "get_tasks" THEN [found |-> GetTasks(ts, uid, call.args)]
                 ELSE IF call.name = "propose_action" THEN ProposeAction(call.args)
                 ELSE [error |-> "Unknown function"]]

\* The for loop over the tool calls of a round: proposal = functionArgs at
\* every propose_action call, so the last one of the round is kept
RECURSIVE CaptureProposalMut(_, _)
CaptureProposalMut(proposal, calls) ==
    IF calls = <<>> THEN proposal
    ELSE IF Head(calls).name = "propose_action" /\ proposal = NoProposal
         THEN CaptureProposalMut(Head(calls).args, Tail(calls))
         ELSE CaptureProposalMut(proposal, Tail(calls))
RECURSIVE CaptureProposal(_, _)
CaptureProposal(proposal, calls) ==
    IF calls = <<>> THEN proposal
    ELSE IF Head(calls).name = "propose_action"
         THEN CaptureProposal(Head(calls).args, Tail(calls))
         ELSE CaptureProposal(proposal, Tail(calls))

RoundMessagesLastFirst(ts, uid, r) ==
    <<[role |-> "assistant", tool_calls |-> r.tool_calls]>>
    \o [i \in 1..Len(r.tool_calls) |-> ToolResult(ts, uid, r.tool_calls[Len(r.tool_calls) + 1 - i])]
\* The messages a round appends: the assistant message carrying the tool
\* calls, then one tool message per call, in the order of the calls
RoundMessages(ts, uid, r) ==
    <<[role |-> "assistant", tool_calls |-> r.tool_calls]>>
    \o [i \in 1..Len(r.tool_calls) |-> ToolResult(ts, uid, r.tool_calls[i])]

\* The data of a confirmation_request, as it reaches the message store (JSON
\* drops the keys whose value is undefined; subtasks defaults to [])
ProposalData(proposal) ==
    Spread(Spread(Spread(Spread(
        Without(proposal, {"action", "task_id", "start_time", "end_time"}),
        [subtasks |-> Get(proposal, "subtasks", <<>>)]),
        IF Has(proposal, "task_id") THEN [id |-> proposal.task_id] ELSE <<>>),
        IF Has(proposal, "start_time") THEN [startTime |-> proposal.start_time] ELSE <<>>),
        IF Has(proposal, "end_time") THEN [endTime |-> proposal.end_time] ELSE <<>>)

ConfirmationRequest(proposal) ==
    [type |-> "confirmation_request", action |-> proposal.action,
     data |-> ProposalData(proposal), text |-> "Please confirm."]

TextResponse(content) ==
    [type |-> "text", text |-> IF content # "" THEN content ELSE "I've processed your request."]
MaxIterationsResponse ==
    [type |-> "text", text |-> "I'm having trouble processing this request. Please try rephrasing it.",
     error |-> "max_iterations"]
ErrorResponse == [type |-> "error", status |-> 500, error |-> "AI processing failed"]

\* while (iteration < MAX_ITERATIONS)
LoopContinuesMut(iteration) == iteration <= MAX_ITERATIONS
LoopContinues(iteration) == iteration < MAX_ITERATIONS

\* callGroqWithRetry.  Temperatures are in tenths: 5 is 0.5.
INITIAL_TEMPERATURE == 5
MAX_RETRIES == 3
\* temperature = Math.min(temperature + 0.2, 1.0)
NextTemperature(temperature) == IF temperature + 2 <= 10 THEN temperature + 2 ELSE 10
\* The catch block: the failed call is issued again (continue) for a 400 with
\* code tool_use_failed while attempts are left; every other error is thrown
RetriesAnyFailure(error, attempt) == attempt < MAX_RETRIES - 1
Retries(error, attempt) ==
    error.status = 400 /\ error.code = "tool_use_failed" /\ attempt < MAX_RETRIES - 1
\* The state of one callGroqWithRetry: the loop variables, the temperatures
\* of the provider calls issued, the errors they failed with, and how the
\* function ended ("pending": it has not)
CallStart ==
    [attempt |-> 0, temperature |-> INITIAL_TEMPERATURE, issued |-> <<>>, errors |-> <<>>, result |-> "pending"]
\* The call a provider request belongs to: the one in flight, else a new one
CurrentCall(c) == IF Has(c, "call") /\ c.call.result = "pending" THEN c.call ELSE CallStart
\* One provider call that fails with error
CallFailed(call, error) ==
    LET retry == Retries(error, call.attempt)
    IN  [attempt |-> IF retry THEN call.attempt + 1 ELSE call.attempt,
         temperature |-> IF retry THEN NextTemperature(call.temperature) ELSE call.temperature,
         issued |-> Append(call.issued, call.temperature),
         errors |-> Append(call.errors, error),
         result |-> IF retry THEN "pending" ELSE "thrown"]

\* The state of one chat invocation: userId, the number of rounds started,
\* the number of messages of the conversation, the messages the last round
\* appended, the proposal captured and the response sent (NoOut: none yet)
ChatStart(uid, historyLen) ==
    [userId |-> uid, iteration |-> 0, nMessages |-> historyLen + 2, round |-> <<>>,
     proposal |-> NoProposal, out |-> NoOut]

\* One iteration of the loop, given the model's response r: a thrown
\* provider error, a text (no tool calls) or a list of tool calls
ChatRound(c, ts, r) ==
    IF Has(r, "throws")
    THEN [c EXCEPT !.iteration = @ + 1, !.round = <<>>, !.out = ErrorResponse]
    ELSE IF r.tool_calls = <<>>
    THEN [c EXCEPT !.iteration = @ + 1, !.round = <<>>, !.out = TextResponse(r.content)]
    ELSE LET proposal == CaptureProposal(c.proposal, r.tool_calls)
         IN  [c EXCEPT !.iteration = @ + 1,
                       !.nMessages = @ + 1 + Len(r.tool_calls),
                       !.round = RoundMessages(ts, c.userId, r),
                       !.proposal = proposal,
                       !.out = IF proposal # NoProposal THEN ConfirmationRequest(proposal) ELSE NoOut]

\* The loop is left without a response: the fixed fallback
ChatExhausted(c) == [c EXCEPT !.out = MaxIterationsResponse]

\* The task table after a round: the tool calls write nothing
RECURSIVE RoundTasks(_, _, _)
RoundTasks(ts, uid, calls) ==
    IF calls = <<>> THEN ts
    ELSE RoundTasks(IF Head(calls).name = "propose_action"
                    THEN ProposeActionTasks(ts, uid, Head(calls).args) ELSE ts,
                    uid, Tail(calls))

\* chat run to its response over the responses the model gives, in order
RECURSIVE ChatRun(_, _, _)
ChatRun(c, ts, script) ==
    IF c.out # NoOut THEN c
    ELSE IF ~LoopContinues(c.iteration) THEN ChatExhausted(c)
    ELSE IF script = <<>> THEN c
    ELSE ChatRun(ChatRound(c, ts, Head(script)), ts, Tail(script))

\* The task table after the chat run
RECURSIVE ChatRunTasks(_, _, _)
ChatRunTasks(c, ts, script) ==
    IF c.out # NoOut \/ ~LoopContinues(c.iteration) \/ script = <<>> THEN ts
    ELSE ChatRunTasks(ChatRound(c, ts, Head(script)),
                      IF Has(Head(script), "throws") THEN ts
                      ELSE RoundTasks(ts, c.userId, Head(script).tool_calls),
                      Tail(script))

(***************************************************************************)
(* ChatSessionModel                                                        *)
(***************************************************************************)
RECENT_LIMIT == 10
NoConfirmation == [none |-> TRUE]

\* ChatSessionModel.create: deactivate the user's sessions, insert an active one
\* (a deleted session is Gone)
LiveSessionIds(ss) == {i \in 1..Len(ss) : ss[i] # Gone}
\* UPDATE chat_sessions SET is_active = false WHERE user_id = $1
DeactivateAll(ss, uid) ==
    [i \in 1..Len(ss) |-> IF ss[i] # Gone /\ ss[i].user_id = uid THEN [ss[i] EXCEPT !.is_active = FALSE] ELSE ss[i]]
SessionCreateMut(ss, uid) ==
    Append(ss, [user_id |-> uid, title |-> "New Chat", is_active |-> TRUE])
SessionCreate(ss, uid) ==
    Append(DeactivateAll(ss, uid), [user_id |-> uid, title |-> "New Chat", is_active |-> TRUE])

\* ChatSessionModel.update: title and is_active where the update has them;
\* activating a session first deactivates every session of its user
SessionUpdate(ss, id, updates) ==
    LET ss1 == IF Get(updates, "is_active", FALSE) THEN DeactivateAll(ss, ss[id].user_id) ELSE ss
    IN  [ss1 EXCEPT ![id] = [user_id |-> @.user_id,
                             title |-> Get(updates, "title", @.title),
                             is_active |-> Get(updates, "is_active", @.is_active)]]

\* ChatSessionModel.delete: DELETE FROM chat_sessions WHERE id = $1; the
\* messages of the session go with it
SessionDelete(ss, id) == [ss EXCEPT ![id] = Gone]
SessionDeleteMessages(ms, id) ==
    [i \in 1..Len(ms) |-> IF ms[i] # Gone /\ ms[i].session_id = id THEN Gone ELSE ms[i]]

\* ChatSessionModel.findActiveByUserId: rows[0] of the active sessions of the
\* user (NoId for null)
FindActiveByUserId(ss, uid) ==
    LET active == {i \in LiveSessionIds(ss) : ss[i].user_id = uid /\ ss[i].is_active}
    IN  IF active = {} THEN NoId ELSE CHOOSE i \in active : \A j \in active : i <= j

\* ChatSessionModel.updateTitleFromMessage
UpdateTitleFromMessage(ss, sid, message) ==
    IF ss[sid].title = "New Chat" THEN [ss EXCEPT ![sid].title = message] ELSE ss

\* addRecentChat as a plain INSERT, with no row refreshed
AddRecentChatInserts(list, q) ==
    SubSeq(<<q>> \o list, 1, IF Len(list) + 1 > RECENT_LIMIT THEN RECENT_LIMIT ELSE Len(list) + 1)

\* ChatSessionModel.addRecentChat: insert or refresh the query, keep the 10
\* most recent of the user
AddRecentChat(list, q) ==
    LET rest == SelectSeq(list, LAMBDA x : x # q)
        all == <<q>> \o rest
    IN  SubSeq(all, 1, IF Len(all) > RECENT_LIMIT THEN RECENT_LIMIT ELSE Len(all))

\* ChatSessionModel.addMessage
AddMessage(ms, sid, text, isUser, confirmation) ==
    Append(ms, [session_id |-> sid, text |-> text, is_user |-> isUser, confirmation |-> confirmation])

\* ChatSessionModel.updateMessage: SET confirmation = $1 WHERE id = $2
UpdateMessage(ms, mid, confirmation) == [ms EXCEPT ![mid].confirmation = confirmation]

(***************************************************************************)
(* The requests.  Every action is one handler, run to its response.        *)
(***************************************************************************)
Respond(op, status, data) == resp' = [op |-> op, status |-> status, data |-> data]

Bounded ==
    /\ Len(tasks') <= MaxTasks
    /\ Len(subtasks') <= MaxSubtasks
    /\ Len(sessions') <= MaxSessions
    /\ Len(messages') <= MaxMessages

\* taskController.createTask
CreateTask(u, body) ==
    LET task == Spread(body, [user_id |-> u])
    IN  /\ tasks' = TaskCreateTasks(tasks, task)
        /\ subtasks' = TaskCreateSubtasks(tasks, subtasks, task)
        /\ Respond("createTask", IF CreateFails(task) THEN 500 ELSE 201, NoData)
        /\ UNCHANGED <<requests, users, sessions, messages, recentChats, chat>>
        /\ Bounded

\* taskController.createTask of a task of a given date, in the service of
\* the streak requests
CreateTaskOn(u, date) ==
    /\ tasks' = TaskCreateTasks(tasks, [user_id |-> u, title |-> "t", date |-> date])
    /\ Respond("createTask", 201, NoData)
    /\ UNCHANGED <<requests, subtasks, users, sessions, messages, recentChats, chat>>
    /\ Len(tasks') <= MaxStreakTasks

\* A call of UserModel.adjustStreakAfterDate(uid, date); with no row of the
\* user it throws
AdjustStreakAfterDate(u, date) ==
    /\ users' = AdjustStreak(users, tasks, u, date)
    /\ Respond("adjustStreakAfterDate", IF FindUser(users, u) = NoId THEN 500 ELSE 200, [date |-> date])
    /\ UNCHANGED <<requests, tasks, subtasks, sessions, messages, recentChats, chat>>

\* existingTask.user_id !== userId
OwnsTask(ts, id, u) == ts[id].user_id = u

\* taskController.updateTask
UpdateTask(u, id, updates) ==
    LET found == FindById(tasks, id) # NoId
        ok == found /\ OwnsTask(tasks, id, u) /\ ~UpdateFails(tasks, id, updates)
        ts1 == TaskUpdateTasks(tasks, id, updates)
        updated == FindById(ts1, id) # NoId
        nowCompleted == IF Has(updates, "is_completed") THEN updates.is_completed
                        ELSE updated /\ ts1[id].is_completed
    IN  /\ tasks' = IF ok THEN ts1 ELSE tasks
        /\ subtasks' = IF ok THEN TaskUpdateSubtasks(tasks, subtasks, id, updates) ELSE subtasks
        /\ users' = IF ok /\ ~tasks[id].is_completed /\ nowCompleted /\ updated
                    THEN AdjustStreak(users, ts1, u, ts1[id].date) ELSE users
        /\ Respond("updateTask",
                   IF ~found THEN 404 ELSE IF ~OwnsTask(tasks, id, u) THEN 403
                   ELSE IF ~ok THEN 500 ELSE 200, NoData)
        /\ UNCHANGED <<requests, sessions, messages, recentChats, chat>>
        /\ Len(subtasks') <= MaxSubtasks

\* taskController.deleteTask
DeleteTask(u, id) ==
    LET found == FindById(tasks, id) # NoId
        ok == found /\ OwnsTask(tasks, id, u)
    IN  /\ tasks' = IF ok THEN TaskDelete(tasks, id) ELSE tasks
        /\ Respond("deleteTask", IF ~found THEN 404 ELSE IF ~ok THEN 403 ELSE 200, NoData)
        /\ UNCHANGED <<requests, subtasks, users, sessions, messages, recentChats, chat>>

\* TaskModel.sync: one element of the list (an exception is collected in
\* result.errors and the loop goes on)
SyncOne(st, u, task) ==
    LET id == Get(task, "id", NoId)
        asUser == Spread(task, [user_id |-> u])
    IN  IF Get(task, "is_deleted", FALSE)
        THEN IF id # NoId THEN [st EXCEPT !.tasks = TaskDelete(st.tasks, id)] ELSE st
        ELSE IF id # NoId /\ FindById(st.tasks, id) # NoId
        THEN [tasks |-> TaskUpdateTasks(st.tasks, id, asUser),
              subtasks |-> TaskUpdateSubtasks(st.tasks, st.subtasks, id, asUser)]
        ELSE [tasks |-> TaskCreateTasks(st.tasks, asUser),
              subtasks |-> TaskCreateSubtasks(st.tasks, st.subtasks, asUser)]

RECURSIVE SyncAll(_, _, _)
SyncAll(st, u, list) ==
    IF list = <<>> THEN st ELSE SyncAll(SyncOne(st, u, Head(list)), u, Tail(list))

\* taskController.syncTasks
SyncTasks(u, list) ==
    LET st == SyncAll([tasks |-> tasks, subtasks |-> subtasks], u, list)
    IN  /\ tasks' = st.tasks
        /\ subtasks' = st.subtasks
        /\ Respond("syncTasks", 200, NoData)
        /\ UNCHANGED <<requests, users, sessions, messages, recentChats, chat>>
        /\ Bounded

\* taskController.syncTasks of a list of new tasks, in the service of the
\* searches
SyncNewTasks(u, list) ==
    LET st == SyncAll([tasks |-> tasks, subtasks |-> subtasks], u, list)
    IN  /\ tasks' = st.tasks
        /\ subtasks' = st.subtasks
        /\ Respond("syncTasks", 200, NoData)
        /\ UNCHANGED <<requests, users, sessions, messages, recentChats, chat>>

\* A get_tasks call of the tool executor bound to u; fails: the store throws
ExecuteGetTasks(u, args, fails) ==
    /\ \E kept \in IF fails THEN {{}} ELSE Slice(tasks, MatchingTasks(tasks, u, args)) :
          Respond("get_tasks", 0,
                  [userId |-> u, args |-> args,
                   result |-> IF fails THEN [error |-> "ERROR in get_tasks"]
                              ELSE [found |-> Cardinality(kept), tasks |-> kept]])
    /\ UNCHANGED <<requests, tasks, subtasks, users, sessions, messages, recentChats, chat>>

\* taskController.createSubtask
CreateSubtask(u, taskId, body) ==
    LET found == FindById(tasks, taskId) # NoId
        ok == found /\ OwnsTask(tasks, taskId, u) /\ CanCreateSubtask(tasks, taskId, body)
    IN  /\ subtasks' = IF ok THEN Append(subtasks, CreateSubtaskRow(taskId, body)) ELSE subtasks
        /\ Respond("createSubtask",
                   IF ~found THEN 404 ELSE IF ~OwnsTask(tasks, taskId, u) THEN 403
                   ELSE IF ~ok THEN 500 ELSE 201, NoData)
        /\ UNCHANGED <<requests, tasks, users, sessions, messages, recentChats, chat>>
        /\ Bounded

\* taskController.updateSubtask: the subtask is updated, then the parent
\* task's completion is reconciled and the streak of the requesting user
\* adjusted
UpdateSubtask(u, id, body) ==
    LET found == id \in LiveSubtaskIds(subtasks)
        subs1 == TaskUpdateSubtask(subtasks, id, body)
        parent == IF found THEN FindById(tasks, subs1[id].task_id) ELSE NoId
        allDone == \A i \in LiveSubtaskIds(subs1) : subs1[i].task_id = parent => subs1[i].is_completed
        flip == parent # NoId /\ (allDone # tasks[parent].is_completed)
        ts1 == IF flip THEN TaskUpdateTasks(tasks, parent, [is_completed |-> allDone]) ELSE tasks
    IN  /\ subtasks' = subs1
        /\ tasks' = ts1
        /\ users' = IF flip THEN AdjustStreak(users, ts1, u, tasks[parent].date) ELSE users
        /\ Respond("updateSubtask", IF found THEN 200 ELSE 404, NoData)
        /\ UNCHANGED <<requests, sessions, messages, recentChats, chat>>

\* taskController.deleteSubtask
DeleteSubtask(u, id) ==
    /\ subtasks' = TaskDeleteSubtask(subtasks, id)
    /\ Respond("deleteSubtask", 200, NoData)
    /\ UNCHANGED <<requests, tasks, users, sessions, messages, recentChats, chat>>

\* aiController.confirmAction, as the route POST /api/ai/confirm
AiConfirmAction(u, body) ==
    LET action == Get(body, "action", Null)
        data == Get(body, "data", NoData)
    IN  /\ tasks' = ExecTasks(tasks, u, action, data)
        /\ subtasks' = ExecSubtasks(tasks, subtasks, u, action, data)
        /\ Respond("aiConfirm", IF ExecFails(tasks, action, data) THEN 500 ELSE 200, NoData)
        /\ UNCHANGED <<requests, users, sessions, messages, recentChats, chat>>
        /\ Bounded

\* chatController.createSession
CreateSession(u) ==
    /\ sessions' = SessionCreate(sessions, u)
    /\ Respond("createSession", 201, NoData)
    /\ UNCHANGED <<requests, tasks, subtasks, users, messages, recentChats, chat>>
    /\ Bounded

\* chatController.updateSession
UpdateSession(u, id, updates) ==
    LET found == id \in LiveSessionIds(sessions)
        ok == found /\ sessions[id].user_id = u
    IN  /\ sessions' = IF ok THEN SessionUpdate(sessions, id, updates) ELSE sessions
        /\ Respond("updateSession", IF ~found THEN 404 ELSE IF ~ok THEN 403 ELSE 200, NoData)
        /\ UNCHANGED <<requests, tasks, subtasks, users, messages, recentChats, chat>>

\* chatController.deleteSession
DeleteSession(u, id) ==
    LET found == id \in LiveSessionIds(sessions)
        ok == found /\ sessions[id].user_id = u
    IN  /\ sessions' = IF ok THEN SessionDelete(sessions, id) ELSE sessions
        /\ messages' = IF ok THEN SessionDeleteMessages(messages, id) ELSE messages
        /\ Respond("deleteSession", IF ~found THEN 404 ELSE IF ~ok THEN 403 ELSE 200, NoData)
        /\ UNCHANGED <<requests, tasks, subtasks, users, recentChats, chat>>

\* chatController.getOrCreateActiveSession
GetOrCreateActiveSession(u) ==
    LET active == FindActiveByUserId(sessions, u)
    IN  /\ sessions' = IF active = NoId THEN SessionCreate(sessions, u) ELSE sessions
        /\ Respond("getOrCreateActiveSession", 200,
                   [session_id |-> IF active = NoId THEN Len(sessions) + 1 ELSE active])
        /\ UNCHANGED <<requests, tasks, subtasks, users, messages, recentChats, chat>>
        /\ Len(sessions') <= MaxSessionRows

\* chatController.createSession, in the service of the session requests
CreateSessionRow(u) ==
    /\ sessions' = SessionCreate(sessions, u)
    /\ Respond("createSession", 201, NoData)
    /\ UNCHANGED <<requests, tasks, subtasks, users, messages, recentChats, chat>>
    /\ Len(sessions') <= MaxSessionRows

\* idx_chat_sessions_user_active, unique on (user_id) WHERE is_active = true:
\* the statement that makes row id of uid active (NoId: a new row) is
\* rejected when another row of uid is active
NoUniqueIndex(ss, uid, id) == FALSE
UniqueViolation(ss, uid, id) ==
    \E i \in LiveSessionIds(ss) : i # id /\ ss[i].user_id = uid /\ ss[i].is_active

\* ChatSessionModel.create for user u in process p, statement by statement:
\* the UPDATE that deactivates, then the INSERT
CreateStep(p, u) ==
    IF requests[p].pc = "idle"
    THEN /\ Len(sessions) + Cardinality({q \in DOMAIN requests : requests[q].pc = "insert"}) < MaxSessionRows
         /\ sessions' = DeactivateAll(sessions, u)
         /\ requests' = [requests EXCEPT ![p] = [pc |-> "insert", user |-> u]]
         /\ UNCHANGED <<tasks, subtasks, users, messages, recentChats, chat, resp>>
    ELSE /\ requests[p].pc = "insert" /\ requests[p].user = u
         /\ sessions' = IF UniqueViolation(sessions, u, NoId) THEN sessions
                         ELSE Append(sessions, [user_id |-> u, title |-> "New Chat", is_active |-> TRUE])
         /\ Respond("createSession", IF UniqueViolation(sessions, u, NoId) THEN 500 ELSE 201, NoData)
         /\ requests' = [requests EXCEPT ![p] = [pc |-> "idle"]]
         /\ UNCHANGED <<tasks, subtasks, users, messages, recentChats, chat>>

\* updateSession of u's session id with {is_active: true} in process p,
\* statement by statement: the UPDATE that deactivates, then the UPDATE of
\* the row
ActivateStep(p, u, id) ==
    IF requests[p].pc = "idle"
    THEN /\ id \in LiveSessionIds(sessions) /\ sessions[id].user_id = u
         /\ sessions' = DeactivateAll(sessions, u)
         /\ requests' = [requests EXCEPT ![p] = [pc |-> "activate", user |-> u, id |-> id]]
         /\ UNCHANGED <<tasks, subtasks, users, messages, recentChats, chat, resp>>
    ELSE /\ requests[p] = [pc |-> "activate", user |-> u, id |-> id]
         /\ sessions' = IF UniqueViolation(sessions, u, id) THEN sessions
                         ELSE [sessions EXCEPT ![id].is_active = TRUE]
         /\ Respond("updateSession", IF UniqueViolation(sessions, u, id) THEN 500 ELSE 200, NoData)
         /\ requests' = [requests EXCEPT ![p] = [pc |-> "idle"]]
         /\ UNCHANGED <<tasks, subtasks, users, messages, recentChats, chat>>

\* The text of the assistant message sendMessage stores for a chat response
AiMessageText(out) ==
    IF Get(out, "text", "") # "" THEN out.text
    ELSE IF out.type = "confirmation_request" THEN "I've prepared that for you. Does this look right?"
    ELSE "Sorry, I couldn't generate a response right now. Please try again."

\* The confirmation sendMessage attaches to the assistant message
AiMessageConfirmation(out) ==
    IF out.type = "confirmation_request" THEN [action |-> out.action, data |-> out.data]
    ELSE NoConfirmation

\* chatController.sendMessage: the user message, the session title, the
\* recent chats, the agent loop over the model's responses (script), and the
\* assistant message
SendMessage(u, sid, message, script) ==
    LET found == sid \in 1..Len(sessions)
        ok == found /\ sessions[sid].user_id = u
        ms1 == AddMessage(messages, sid, message, TRUE, NoConfirmation)
        history == Cardinality({i \in 1..Len(ms1) : ms1[i].session_id = sid})
        c == ChatRun(ChatStart(u, history), tasks, script)
    IN  /\ found /\ ok => c.out # NoOut
        /\ tasks' = IF ok THEN ChatRunTasks(ChatStart(u, history), tasks, script) ELSE tasks
        /\ sessions' = IF ok THEN UpdateTitleFromMessage(sessions, sid, message) ELSE sessions
        /\ recentChats' = IF ok THEN [recentChats EXCEPT ![u] = AddRecentChat(@, message)] ELSE recentChats
        /\ messages' = IF ok THEN AddMessage(ms1, sid, AiMessageText(c.out), FALSE, AiMessageConfirmation(c.out))
                       ELSE messages
        /\ Respond("sendMessage", IF ~found THEN 404 ELSE IF ~ok THEN 403 ELSE 200,
                   IF ok THEN messages'[Len(messages')] ELSE NoData)
        /\ UNCHANGED <<requests, subtasks, users, chat>>
        /\ Bounded

\* The assistant message confirmAction adds after the execution
ConfirmationText(ts, action, data) ==
    IF ExecText(ts, action, data) # "" THEN ExecText(ts, action, data) ELSE "Action confirmed."

\* The session of the message belongs to the requesting user
OwnsMessage(ms, ss, mid, u) ==
    ms[mid].session_id \in 1..Len(ss) /\ ss[ms[mid].session_id].user_id = u

\* resolvedAction = action ?? stored?.action ?? null, and the same for data
ResolvedAction(stored, body) ==
    IF Has(body, "action") THEN body.action ELSE Get(stored, "action", Null)
ResolvedData(stored, body) ==
    IF Has(body, "data") THEN body.data ELSE Get(stored, "data", NoData)

\* if (!confirm) { return the updated message }: only a confirmation executes
ShouldExecuteMut(confirm) == TRUE
ShouldExecute(confirm) == confirm

\* chatController.confirmAction (the version that reads the stored proposal)
ConfirmAction(u, mid, confirm, body) ==
    LET found == mid \in 1..Len(messages)
        stored == messages[mid].confirmation
        action == ResolvedAction(stored, body)
        data == ResolvedData(stored, body)
        ms1 == UpdateMessage(messages, mid,
                   [action |-> action, data |-> data, confirmed |-> confirm, cancelled |-> ~confirm])
        owner == OwnsMessage(messages, sessions, mid, u)
        exec == found /\ owner /\ ShouldExecute(confirm)
    IN  /\ messages' = IF ~found THEN messages
                       ELSE IF ~exec THEN ms1
                       ELSE AddMessage(ms1, messages[mid].session_id,
                                       ConfirmationText(tasks, action, data), FALSE, NoConfirmation)
        /\ tasks' = IF exec THEN ExecTasks(tasks, u, action, data) ELSE tasks
        /\ subtasks' = IF exec THEN ExecSubtasks(tasks, subtasks, u, action, data) ELSE subtasks
        /\ Respond("confirmAction", IF ~found THEN 404 ELSE IF ~owner THEN 403 ELSE 200,
                   IF exec THEN messages'[Len(messages')]
                   ELSE IF found /\ owner THEN ms1[mid] ELSE NoData)
        /\ UNCHANGED <<requests, users, sessions, recentChats, chat>>
        /\ Bounded

\* chatController.confirmAction (the version that takes action and data from
\* the request only): the message is updated, and with confirm = true the
\* action of the request is executed; a key the request lacks is dropped from
\* the stored confirmation
ConfirmActionV2(u, mid, confirm, body) ==
    LET found == mid \in 1..Len(messages)
        ms1 == UpdateMessage(messages, mid,
                   Spread(Without(body, DOMAIN body \ {"action", "data"}),
                          [confirmed |-> confirm, cancelled |-> ~confirm]))
        action == Get(body, "action", Null)
        data == Get(body, "data", NoData)
        exec == found /\ ShouldExecute(confirm)
    IN  /\ messages' = IF ~found THEN messages
                       ELSE IF ~exec THEN ms1
                       ELSE AddMessage(ms1, messages[mid].session_id,
                                       IF ExecText(tasks, action, data) # "" THEN ExecText(tasks, action, data)
                                       ELSE "Action confirmed and executed", FALSE, NoConfirmation)
        /\ tasks' = IF exec THEN ExecTasks(tasks, u, action, data) ELSE tasks
        /\ subtasks' = IF exec THEN ExecSubtasks(tasks, subtasks, u, action, data) ELSE subtasks
        /\ Respond("confirmActionV2", IF ~found THEN 503 ELSE 200,
                   IF exec THEN messages'[Len(messages')] ELSE IF found THEN ms1[mid] ELSE NoData)
        /\ UNCHANGED <<requests, users, sessions, recentChats, chat>>
        /\ Bounded

\* userController.createOrUpdateUser: UserModel.upsert of the token's identity
\* (display_name: name || email); a failing statement is a DatabaseError
CreateOrUpdateUser(token) ==
    LET userData == [firebase_uid |-> token.uid, email |-> token.email,
                     display_name |-> IF token.name # Null THEN token.name ELSE token.email]
        ok == ~UpsertFails(userData)
        us1 == UpsertRows(users, userData)
    IN  /\ users' = IF ok THEN us1 ELSE users
        /\ Respond("createOrUpdateUser", IF ok THEN 200 ELSE 503,
                   IF ok THEN us1[FindUser(us1, token.uid)] ELSE [error |-> "null value in column email"])
        /\ UNCHANGED <<requests, tasks, subtasks, sessions, messages, recentChats, chat>>
        /\ Len(users') <= MaxUsers

\* A call of ChatSessionModel.addRecentChat({user_id, query})
AddRecentChatCall(u, q) ==
    /\ recentChats' = [recentChats EXCEPT ![u] = AddRecentChat(@, q)]
    /\ Respond("addRecentChat", 200, [user_id |-> u, query |-> q])
    /\ UNCHANGED <<requests, tasks, subtasks, users, sessions, messages, chat>>

\* aiController.chat, round by round: a new invocation
ChatBegin(u) ==
    /\ chat.out # NoOut
    /\ chat' = ChatStart(u, 0)
    /\ UNCHANGED <<requests, tasks, subtasks, users, sessions, messages, recentChats, resp>>

\* One pass through the body of the while loop, on the model's response r
ChatStep(r) ==
    /\ chat.out = NoOut
    /\ LoopContinues(chat.iteration)
    /\ chat' = ChatRound(chat, tasks, r)
    /\ tasks' = IF Has(r, "throws") THEN tasks ELSE RoundTasks(tasks, chat.userId, r.tool_calls)
    /\ UNCHANGED <<requests, subtasks, users, sessions, messages, recentChats, resp>>

\* The loop condition fails: the statements after the loop
ChatFallback ==
    /\ chat.out = NoOut
    /\ ~LoopContinues(chat.iteration)
    /\ chat' = ChatExhausted(chat)
    /\ UNCHANGED <<requests, tasks, subtasks, users, sessions, messages, recentChats, resp>>

\* One provider call of the loop's callGroqWithRetry fails: it is retried, or
\* the error reaches the catch block of chat
ProviderFails(error) ==
    LET call == CallFailed(CurrentCall(chat), error)
    IN  /\ chat.out = NoOut
        /\ LoopContinues(chat.iteration)
        /\ chat' = Spread(IF call.result = "thrown" THEN ChatRound(chat, tasks, [throws |-> TRUE, error |-> error])
                          ELSE chat,
                          [call |-> call])
        /\ UNCHANGED <<requests, tasks, subtasks, users, sessions, messages, recentChats, resp>>

\* One provider call of the loop's callGroqWithRetry answers r
ProviderAnswers(r) ==
    /\ chat.out = NoOut
    /\ LoopContinues(chat.iteration)
    /\ chat' = LET call == CurrentCall(chat)
               IN  Spread(ChatRound(chat, tasks, r),
                          [call |-> [call EXCEPT !.issued = Append(@, call.temperature), !.result = "returned"]])
    /\ tasks' = RoundTasks(tasks, chat.userId, r.tool_calls)
    /\ UNCHANGED <<requests, subtasks, users, sessions, messages, recentChats, resp>>

(***************************************************************************)
(* The inputs of the requests                                              *)
(***************************************************************************)
TaskIds == 1..MaxTasks
SubtaskIds == 1..MaxSubtasks
SessionIds == 1..MaxSessions
MessageIds == 1..MaxMessages
\* The messages a client shows a confirmation card for
ProposalMessageIds == {i \in 1..Len(messages) : messages[i].confirmation # NoConfirmation}

CreateBodies == {[title |-> "t"], [date |-> 1]}
UpdateBodies == {[is_completed |-> TRUE], [is_completed |-> FALSE]}
SubtaskBodies == {[title |-> "s"]}
SubtaskUpdates == {[is_completed |-> TRUE]}
SyncLists ==
    {<<[title |-> "t"]>>}
    \cup {<<[id |-> i, is_deleted |-> TRUE]>> : i \in TaskIds}
    \cup {<<[id |-> i, title |-> "u"]>> : i \in TaskIds}

\* The arguments of the propose_action calls the model makes
ProposalArgs ==
    {[action |-> "create_task", title |-> "t"], [action |-> "delete_task", task_id |-> 1]}

ReadCall(k) == [id |-> k, name |-> "get_tasks", args |-> [date |-> Today]]
ProposeCall(k, p) == [id |-> k, name |-> "propose_action", args |-> p]
Text(content) == [content |-> content, tool_calls |-> <<>>]
Calls(calls) == [content |-> "", tool_calls |-> calls]
Throws == [throws |-> TRUE]
\* The provider answers 429 and callGroqWithRetry throws the error
RateLimited == [throws |-> TRUE, error |-> [status |-> 429, code |-> "rate_limit_exceeded"]]

\* The behaviours of the model during one sendMessage
Scripts ==
    {<<Text("hi")>>, <<Throws>>, <<RateLimited>>, [i \in 1..MAX_ITERATIONS |-> Calls(<<ReadCall(1)>>)]}
    \cup {<<Calls(<<ReadCall(1)>>), Calls(<<ProposeCall(1, p)>>)>> : p \in ProposalArgs}

\* The tool calls of one round: up to MaxCalls calls, numbered in order
CallKinds ==
    {[name |-> "get_tasks", args |-> [date |-> Today]], [name |-> "search_web", args |-> <<>>]}
    \cup {[name |-> "propose_action", args |-> p] : p \in ProposalArgs}
MakeCall(k, kind) == [id |-> k, name |-> kind.name, args |-> kind.args]
CallLists ==
    UNION {{[k \in 1..n |-> MakeCall(k, kinds[k])] : kinds \in [1..n -> CallKinds]} : n \in 1..MaxCalls}
\* The responses of the model to one request
Rounds == {Text("hi"), Text(""), Throws} \cup {Calls(cs) : cs \in CallLists}

\* The identities a verified token carries
Emails == {"a@x", "b@x"}
Tokens == [uid : Users, email : Emails \cup {Null}, name : {"n", Null}]
TimesOfDay == {At(h, m) : h \in {0, 1, 9, 22, 23}, m \in {0, 30}}
\* The bodies of a create request: each of start_time and end_time supplied or not
TimedBodies ==
    {[title |-> "t"]}
    \cup {[title |-> "t", start_time |-> s] : s \in TimesOfDay}
    \cup {[title |-> "t", end_time |-> e] : e \in TimesOfDay}
    \cup {[title |-> "t", start_time |-> s, end_time |-> e] : s \in TimesOfDay, e \in TimesOfDay}
TimedProposals ==
    {[action |-> "create_task", data |-> [title |-> "t", startTime |-> s]] : s \in TimesOfDay}

\* The confirmed proposals that mark a task completed or not completed
CompletionProposals ==
    {[action |-> "update_task",
      data |-> Spread([id |-> 1, startTime |-> At(9, 0), endTime |-> At(10, 0)], change)] :
        change \in {[is_completed |-> TRUE], [is_completed |-> FALSE]}}

\* The arguments of a get_tasks call: each of query, date, startDate and
\* endDate given or not
SearchArgs ==
    {Spread(Spread(q, d), Spread(sd, ed)) :
        q \in {<<>>, [query |-> "TEA"]}, d \in {<<>>, [date |-> 1]},
        sd \in {<<>>, [startDate |-> 1]}, ed \in {<<>>, [endDate |-> 1]}}
\* What a confirm request carries besides messageId and confirm
ConfirmBodies ==
    {<<>>, [action |-> "delete_task", data |-> [id |-> 1]]}

(***************************************************************************)
(* The service: requests handled one after the other                       *)
(***************************************************************************)
Init ==
    /\ tasks = <<>>
    /\ subtasks = <<>>
    /\ users = <<>>
    /\ sessions = <<>>
    /\ messages = <<>>
    /\ recentChats = [u \in Users |-> <<>>]
    /\ chat = ChatStart("A", 0)
    /\ resp = [op |-> "none", status |-> 0, data |-> NoData]
    /\ requests = [p \in {1, 2} |-> [pc |-> "idle"]]

\* The chat and confirmation requests, over tasks created through the API
Next ==
    \/ \E u \in Users : CreateTask(u, [title |-> "t", subtasks |-> <<[title |-> "s"]>>])
    \/ \E u \in Users : CreateSession(u)
    \/ \E u \in Users, sid \in SessionIds, script \in Scripts : SendMessage(u, sid, "m", script)
    \/ \E u \in Users, mid \in ProposalMessageIds, confirm \in BOOLEAN, body \in ConfirmBodies :
          ConfirmAction(u, mid, confirm, body)

Spec == Init /\ [][Next]_vars

\* The same service with the other version of chatController.confirmAction
NextV2 ==
    \/ \E u \in Users : CreateTask(u, [title |-> "t", subtasks |-> <<[title |-> "s"]>>])
    \/ \E u \in Users : CreateSession(u)
    \/ \E u \in Users, sid \in SessionIds, script \in Scripts : SendMessage(u, sid, "m", script)
    \/ \E u \in Users, mid \in ProposalMessageIds, confirm \in BOOLEAN, body \in ConfirmBodies :
          ConfirmActionV2(u, mid, confirm, body)

SpecV2 == Init /\ [][NextV2]_vars

\* The task requests
NextTasks ==
    \/ \E u \in Users, body \in CreateBodies : CreateTask(u, body)
    \/ \E u \in Users, id \in TaskIds, updates \in UpdateBodies : UpdateTask(u, id, updates)
    \/ \E u \in Users, id \in TaskIds : DeleteTask(u, id)
    \/ \E u \in Users, list \in SyncLists : SyncTasks(u, list)
    \/ \E u \in Users, id \in TaskIds, body \in SubtaskBodies : CreateSubtask(u, id, body)
    \/ \E u \in Users, id \in SubtaskIds, body \in SubtaskUpdates : UpdateSubtask(u, id, body)
    \/ \E u \in Users, id \in SubtaskIds : DeleteSubtask(u, id)
    \/ \E u \in Users, body \in ConfirmBodies : AiConfirmAction(u, body)

SpecTasks == Init /\ [][NextTasks]_vars

\* The agent loop, round by round, over the tasks of the users
NextChat ==
    \/ \E u \in Users : CreateTask(u, [title |-> "t"])
    \/ \E u \in Users : ChatBegin(u)
    \/ \E r \in Rounds : ChatStep(r)
    \/ ChatFallback

SpecChat == Init /\ [][NextChat]_vars

\* The creation of tasks with and without times
NextCreate ==
    \/ \E u \in Users, body \in TimedBodies : CreateTask(u, body)
    \/ \E u \in Users, body \in TimedProposals : AiConfirmAction(u, body)

SpecCreate == Init /\ [][NextCreate]_vars

\* The session requests
NextSessions ==
    \/ \E u \in Users : CreateSessionRow(u)
    \/ \E u \in Users, id \in 1..MaxSessionRows,
            updates \in {[is_active |-> TRUE], [is_active |-> FALSE], [title |-> "x"]} : UpdateSession(u, id, updates)
    \/ \E u \in Users, id \in 1..MaxSessionRows : DeleteSession(u, id)
    \/ \E u \in Users : GetOrCreateActiveSession(u)

SpecSessions == Init /\ [][NextSessions]_vars

\* The streak requests: a sign-in, tasks over three consecutive days,
\* completion changes and recalculations
NextStreak ==
    \/ CreateOrUpdateUser([uid |-> "A", email |-> "a@x", name |-> "n"])
    \/ \E date \in {1, 2, 3} : CreateTaskOn("A", date)
    \/ \E u \in Users, id \in 1..MaxStreakTasks, updates \in UpdateBodies : UpdateTask(u, id, updates)
    \/ \E u \in Users, date \in {1, 2, 3} : AdjustStreakAfterDate(u, date)
    \/ \E u \in Users, body \in CompletionProposals : AiConfirmAction(u, body)

SpecStreak == Init /\ [][NextStreak]_vars

\* The agent loop, provider call by provider call
NextRetry ==
    \/ \E u \in Users : ChatBegin(u)
    \/ \E error \in [status : {400, 429}, code : {"tool_use_failed", "rate_limit_exceeded"}] : ProviderFails(error)
    \/ \E r \in {Text("hi"), Calls(<<ReadCall(1)>>)} : ProviderAnswers(r)
    \/ ChatFallback

SpecRetry == Init /\ [][NextRetry]_vars

\* The searches of the tool executor over synced tasks: single tasks, then
\* one list of more tasks than a search returns
NextSearch ==
    \/ \E u \in Users, row \in {[title |-> "Tea", date |-> 1], [title |-> "milk", date |-> 2]} :
          Len(tasks) < MaxSearchTasks /\ SyncNewTasks(u, <<row>>)
    \/ \E u \in Users, row \in {[title |-> "Tea", date |-> 1], [title |-> "milk", date |-> 2]} :
          Len(tasks) <= MaxSearchTasks /\ SyncNewTasks(u, [k \in 1..(GET_TASKS_LIMIT + 1) |-> Spread(row, [start_time |-> At(k, 0)])])
    \/ \E u \in Users, id \in 1..MaxSearchTasks : DeleteTask(u, id)
    \/ \E u \in Users, args \in SearchArgs, fails \in BOOLEAN : ExecuteGetTasks(u, args, fails)

SpecSearch == Init /\ [][NextSearch]_vars

\* The readers of tasks (task requests, streak recalculation, search) over
\* tasks that are completed and deleted
NextDeleted ==
    \/ CreateOrUpdateUser([uid |-> "A", email |-> "a@x", name |-> "n"])
    \/ \E u \in Users : CreateTask(u, [title |-> "Tea", date |-> 1])
    \/ \E u \in Users, id \in TaskIds, updates \in UpdateBodies : UpdateTask(u, id, updates)
    \/ \E u \in Users, id \in TaskIds : DeleteTask(u, id)
    \/ \E u \in Users : AdjustStreakAfterDate(u, 1)
    \/ \E u \in Users, args \in SearchArgs : ExecuteGetTasks(u, args, FALSE)
    \/ \E u \in Users, body \in CompletionProposals : AiConfirmAction(u, body)
    \/ \E u \in Users : SyncTasks(u, <<[id |-> 1, title |-> "Tea", date |-> 1]>>)

SpecDeleted == Init /\ [][NextDeleted]_vars

\* The chat in which the model proposes updates and deletions with and
\* without a task_id (the schema of propose_action requires the action only)
NextConfirm ==
    \/ \E u \in Users : CreateTask(u, [title |-> "t"])
    \/ \E u \in Users : CreateSession(u)
    \/ \E u \in Users, sid \in SessionIds,
          p \in {[action |-> "update_task", title |-> "u"], [action |-> "delete_task"],
                 [action |-> "update_task", task_id |-> 1, title |-> "u"]} :
          SendMessage(u, sid, "m", <<Calls(<<ProposeCall(1, p)>>)>>)
    \/ \E u \in Users, mid \in ProposalMessageIds, confirm \in BOOLEAN : ConfirmAction(u, mid, confirm, <<>>)

SpecConfirm == Init /\ [][NextConfirm]_vars

\* The recent chats of the users.  Queries are numbered; a call carries a
\* query never used before or one of the first two queries (kept or dropped
\* by now); the second user repeats one query.
NextRecent ==
    \/ \E u \in {"A"} :
          LET list == recentChats[u]
              fresh == IF list = <<>> THEN 1
                       ELSE 1 + CHOOSE m \in 1..MaxQueries :
                                    (\E i \in 1..Len(list) : list[i] = m) /\ (\A i \in 1..Len(list) : list[i] <= m)
          IN  fresh <= MaxQueries /\ AddRecentChatCall(u, fresh)
    \/ \E u \in Users : AddRecentChatCall(u, 1)
    \/ AddRecentChatCall("A", 2)

SpecRecent == Init /\ [][NextRecent]_vars

\* Two processes execute session requests concurrently, interleaved at the
\* statements; a request that has started is carried on
NextRace ==
    \/ \E p \in {1, 2}, u \in Users : CreateStep(p, u)
    \/ \E p \in {1, 2}, u \in Users, id \in 1..MaxSessionRows : ActivateStep(p, u, id)

SpecRace == Init /\ [][NextRace]_vars /\ WF_vars(NextRace)

\* The sign-ins
NextUsers == \E token \in Tokens : CreateOrUpdateUser(token)

SpecUsers == Init /\ [][NextUsers]_vars

(***************************************************************************)
(* Proposals and their confirmation                                        *)
(***************************************************************************)
\* C1: a sendMessage request leaves tasks and subtasks (and users) as they
\* were, whatever the model does; answered 200 it stores the user message,
\* without a confirmation, and the assistant message, and a proposal of the
\* model is on that assistant message as {action, data}, unconfirmed, and
\* nowhere else.  Tasks and subtasks change only in a task request or in a
\* confirm request with confirm = true (which marks a message confirmed and
\* adds its assistant message).
C1_ChatWritesNoTask ==
    [][/\ resp'.op = "sendMessage" =>
             LET n == Len(messages)
             IN  /\ tasks' = tasks
                 /\ subtasks' = subtasks
                 /\ users' = users
                 /\ resp'.status = 200 =>
                       /\ Len(messages') = n + 2
                       /\ SubSeq(messages', 1, n) = messages
                       /\ messages'[n + 1].is_user
                       /\ messages'[n + 1].confirmation = NoConfirmation
                       /\ ~messages'[n + 2].is_user
                       /\ \/ messages'[n + 2].confirmation = NoConfirmation
                          \/ \E p \in ProposalArgs :
                                messages'[n + 2].confirmation = [action |-> p.action, data |-> ProposalData(p)]
                 /\ resp'.status # 200 => messages' = messages
       /\ (tasks' # tasks \/ subtasks' # subtasks) =>
             /\ resp'.op \in {"createTask", "confirmAction"}
             /\ resp'.op # "createTask" =>
                   /\ Len(messages') = Len(messages) + 1
                   /\ \E mid \in 1..Len(messages) :
                         /\ Has(messages'[mid].confirmation, "confirmed")
                         /\ messages'[mid].confirmation.confirmed
      ]_vars

\* C1 (witness): the model proposed to delete an existing task, the proposal
\* is on the assistant message and the task is still there
C1_Witness ==
    /\ resp.op = "sendMessage"
    /\ resp.status = 200
    /\ resp.data.confirmation = [action |-> "delete_task", data |-> [id |-> 1, subtasks |-> <<>>]]
    /\ Len(tasks) = 1
    /\ ~tasks[1].is_deleted

\* C2: a confirm request with confirm = false changes neither tasks nor
\* subtasks, whatever proposal is stored and whatever action and data the
\* request carries; made for an existing message of the requester's session
\* it marks the message confirmed = false, cancelled = true, adds no message
\* and answers 200 with the updated message.
C2_CancelMutatesNothing ==
    [][resp'.op = "confirmAction" =>
       \A u \in Users, mid \in MessageIds, body \in ConfirmBodies :
          ConfirmAction(u, mid, FALSE, body) =>
             /\ tasks' = tasks
             /\ subtasks' = subtasks
             /\ (mid \in 1..Len(messages) /\ OwnsMessage(messages, sessions, mid, u)) =>
                   /\ resp'.status = 200
                   /\ Len(messages') = Len(messages)
                   /\ messages'[mid].confirmation.confirmed = FALSE
                   /\ messages'[mid].confirmation.cancelled = TRUE
                   /\ resp'.data = messages'[mid]
                   /\ \A j \in 1..Len(messages) : j # mid => messages'[j] = messages[j]
      ]_vars

\* C2 (witness): a proposal to delete an existing task was cancelled and the
\* task is still there
C2_Witness ==
    /\ resp.op = "confirmAction"
    /\ resp.status = 200
    /\ Has(resp.data, "confirmation")
    /\ Has(resp.data.confirmation, "cancelled")
    /\ resp.data.confirmation.cancelled
    /\ resp.data.confirmation.action = "delete_task"
    /\ resp.data.confirmation.data.id = 1
    /\ Len(tasks) = 1
    /\ ~tasks[1].is_deleted

\* C3: after a confirm request with confirm = true that executes a
\* delete_task whose data carries the id of a row of tasks, the row is kept
\* with is_deleted = true, findById of the id returns null, and the id is
\* returned neither by findByUserId nor by findByUserIdAndDateRange.
C3_ConfirmedDeleteHidesTask ==
    [][resp'.op = "confirmAction" =>
       \A u \in Users, mid \in MessageIds, body \in ConfirmBodies :
          LET action == ResolvedAction(messages[mid].confirmation, body)
              data == ResolvedData(messages[mid].confirmation, body)
          IN  (/\ mid \in 1..Len(messages)
               /\ OwnsMessage(messages, sessions, mid, u)
               /\ action = "delete_task"
               /\ Get(data, "id", NoId) \in 1..Len(tasks)
               /\ ConfirmAction(u, mid, TRUE, body))
              => /\ Len(tasks') = Len(tasks)
                 /\ tasks'[data.id] = [tasks[data.id] EXCEPT !.is_deleted = TRUE]
                 /\ FindById(tasks', data.id) = NoId
                 /\ data.id \notin FindByUserId(tasks', tasks[data.id].user_id)
                 /\ data.id \notin FindByUserIdAndDateRange(tasks', tasks[data.id].user_id, 1, Today)
                 /\ \A j \in 1..Len(tasks) : j # data.id => tasks'[j] = tasks[j]
      ]_vars

\* C3 (witness): the stored delete_task proposal of an existing task was
\* confirmed and the row is soft-deleted
C3_Witness ==
    /\ resp.op = "confirmAction"
    /\ resp.status = 200
    /\ Has(resp.data, "text")
    /\ resp.data.text = "Task deleted."
    /\ Len(tasks) = 1
    /\ tasks[1].is_deleted
    /\ \E mid \in 1..Len(messages) :
          /\ Has(messages[mid].confirmation, "confirmed")
          /\ messages[mid].confirmation.confirmed
          /\ messages[mid].confirmation.action = "delete_task"

\* C4: once the proposal of a message is marked confirmed or cancelled, a
\* later confirm request for that message changes neither the flags nor the
\* action and data of the message, and changes neither tasks nor subtasks
\* (a cancelled proposal is never executed, a confirmed one never again).
C4_ResolvedExactlyOnce ==
    [][\A u \in Users, mid \in MessageIds, confirm \in BOOLEAN, body \in ConfirmBodies :
          (/\ ConfirmAction(u, mid, confirm, body)
           /\ mid \in 1..Len(messages)
           /\ Get(messages[mid].confirmation, "action", Null) # Null
           /\ \/ Get(messages[mid].confirmation, "confirmed", FALSE)
              \/ Get(messages[mid].confirmation, "cancelled", FALSE))
          => /\ messages'[mid].confirmation = messages[mid].confirmation
             /\ tasks' = tasks
             /\ subtasks' = subtasks
      ]_vars

\* C5: a confirm request for a message of a session that is not the
\* requester's answers 403 and changes neither tasks nor subtasks, whatever
\* confirm, action and data it carries, in either version of the handler.
C5_NonOwnerRejected ==
    [][\A u \in Users, mid \in MessageIds, confirm \in BOOLEAN, body \in ConfirmBodies :
          (/\ ConfirmAction(u, mid, confirm, body) \/ ConfirmActionV2(u, mid, confirm, body)
           /\ mid \in 1..Len(messages)
           /\ ~OwnsMessage(messages, sessions, mid, u))
          => /\ resp'.status = 403
             /\ tasks' = tasks
             /\ subtasks' = subtasks
      ]_vars

\* C6: a request of user u changes no task of another user and no subtask of
\* a task of another user.
C6_OnlyOwnerMutates ==
    [][\A u \in Users :
          (\/ \E body \in CreateBodies : CreateTask(u, body)
           \/ \E id \in TaskIds, updates \in UpdateBodies : UpdateTask(u, id, updates)
           \/ \E id \in TaskIds : DeleteTask(u, id)
           \/ \E list \in SyncLists : SyncTasks(u, list)
           \/ \E id \in TaskIds, body \in SubtaskBodies : CreateSubtask(u, id, body)
           \/ \E id \in SubtaskIds, body \in SubtaskUpdates : UpdateSubtask(u, id, body)
           \/ \E id \in SubtaskIds : DeleteSubtask(u, id)
           \/ \E body \in ConfirmBodies : AiConfirmAction(u, body))
          => /\ \A id \in 1..Len(tasks) : tasks[id].user_id # u => tasks'[id] = tasks[id]
             /\ \A i \in LiveSubtaskIds(subtasks) :
                   tasks[subtasks[i].task_id].user_id # u => subtasks'[i] = subtasks[i]
      ]_vars

(***************************************************************************)
(* The agent loop                                                          *)
(***************************************************************************)
\* C7: the loop terminates at the fixed bound.  A round is never started
\* after MAX_ITERATIONS rounds; every round that is started counts one and
\* never answers with the fallback; a round of get_tasks or unknown calls
\* only gives no response, so the loop goes on; and when MAX_ITERATIONS
\* rounds gave no response, the next step of chat is the fixed fallback text
\* flagged error = "max_iterations", with no further round and no error
\* response.
C7_LoopTerminatesAtBound ==
    [][/\ chat'.iteration <= MAX_ITERATIONS
       /\ (chat' # chat /\ chat.out = NoOut /\ chat.iteration < MAX_ITERATIONS) =>
              /\ chat'.iteration = chat.iteration + 1
              /\ ~Has(chat'.out, "error") \/ chat'.out.error # "max_iterations"
              /\ (/\ chat'.round # <<>>
                  /\ \A i \in 2..Len(chat'.round) : chat'.round[i].name # "propose_action")
                 => chat'.out = NoOut
       /\ (chat' # chat /\ chat.out = NoOut /\ chat.iteration >= MAX_ITERATIONS) =>
              /\ chat'.iteration = MAX_ITERATIONS
              /\ chat'.out.type = "text"
              /\ chat'.out.error = "max_iterations"
              /\ chat'.out.text = "I'm having trouble processing this request. Please try rephrasing it."
      ]_vars

\* C7 (witness): ten rounds of tool calls were made and the fallback returned
C7_Witness ==
    /\ chat.iteration = MAX_ITERATIONS
    /\ chat.nMessages >= 2 + 2 * MAX_ITERATIONS
    /\ chat.out = MaxIterationsResponse

\* C8 (as stated): when a round contains a propose_action call, the arguments
\* of that (first) call are the proposal returned, and no call that follows
\* it in the round is executed: the round appended the assistant message and
\* the tool results up to that call only.
C8_LaterCallsIgnored ==
    chat.out.type = "confirmation_request" =>
        LET calls == chat.round[1].tool_calls
            first == CHOOSE k \in 1..Len(calls) :
                        /\ calls[k].name = "propose_action"
                        /\ \A j \in 1..(k - 1) : calls[j].name # "propose_action"
        IN  /\ chat.proposal = calls[first].args
            /\ Len(chat.round) = 1 + first

\* C8 (amended): when a round contains a propose_action call, every call of
\* the round is executed and answered by a tool message, in order; the
\* proposal returned is the arguments of the last propose_action call of the
\* round; the response is one confirmation_request, and no further round of
\* that invocation is run.
C8_LastProposalReturned ==
    [][/\ (chat' # chat /\ chat'.out.type = "confirmation_request") =>
              LET calls == chat'.round[1].tool_calls
                  last == CHOOSE k \in 1..Len(calls) :
                             /\ calls[k].name = "propose_action"
                             /\ \A j \in (k + 1)..Len(calls) : calls[j].name # "propose_action"
              IN  /\ Len(chat'.round) = 1 + Len(calls)
                  /\ \A k \in 1..Len(calls) :
                        /\ chat'.round[k + 1].role = "tool"
                        /\ chat'.round[k + 1].tool_call_id = calls[k].id
                        /\ chat'.round[k + 1].name = calls[k].name
                        /\ calls[k].name = "propose_action" =>
                               chat'.round[k + 1].content = ProposeAction(calls[k].args)
                  /\ chat'.proposal = calls[last].args
                  /\ chat'.out = ConfirmationRequest(calls[last].args)
                  /\ chat'.iteration = chat.iteration + 1
       /\ (chat' # chat /\ chat.out.type = "confirmation_request") => chat'.iteration = 0
      ]_vars

\* C8 (witness): a round of two different propose_action calls was answered
C8_Witness ==
    /\ chat.out.type = "confirmation_request"
    /\ Len(chat.round) = 3
    /\ chat.round[2].name = "propose_action"
    /\ chat.round[3].name = "propose_action"
    /\ chat.round[2].content # chat.round[3].content

(***************************************************************************)
(* TaskModel.create                                                        *)
(***************************************************************************)
\* C9: every task row has its start_time strictly before its end_time
C9_StartBeforeEnd ==
    \A i \in 1..Len(tasks) : tasks[i].start_time < tasks[i].end_time

(***************************************************************************)
(* UserModel.upsert                                                        *)
(***************************************************************************)
\* C10: an upsert never fails because the user exists; after an upsert that
\* succeeds there is exactly one row of its firebase_uid, carrying the email
\* and the display_name of that upsert, and the rows of the other users are
\* as they were; no firebase_uid ever has two rows.
C10_UpsertIdempotent ==
    [][\A token \in Tokens : CreateOrUpdateUser(token) =>
          LET rowsOf(us, uid) == {i \in 1..Len(us) : us[i].firebase_uid = uid}
          IN  /\ token.email # Null => resp'.status = 200
              /\ resp'.status = 200 =>
                    /\ Cardinality(rowsOf(users', token.uid)) = 1
                    /\ \A i \in rowsOf(users', token.uid) :
                          /\ users'[i].email = token.email
                          /\ users'[i].display_name = IF token.name # Null THEN token.name ELSE token.email
                          /\ resp'.data = users'[i]
              /\ \A uid \in Users \ {token.uid} :
                    /\ Cardinality(rowsOf(users', uid)) <= 1
                    /\ \A i \in rowsOf(users, uid) : users'[i] = users[i]
      ]_vars

\* C10 (witness): the user of the first row signed in again, with another
\* email, after a second user had signed in
C10_Witness ==
    /\ Len(users) = 2
    /\ resp.op = "createOrUpdateUser"
    /\ resp.status = 200
    /\ resp.data.firebase_uid = users[1].firebase_uid
    /\ users[1].email = "b@x"
    /\ users[2].email = "a@x"

(***************************************************************************)
(* Chat sessions                                                           *)
(***************************************************************************)
\* C11: after any sequence of session requests (create, update of is_active
\* or title, delete, getOrCreateActiveSession) each user has at most one
\* session with is_active = true.
C11_OneActiveSession ==
    \A u \in Users :
        Cardinality({i \in LiveSessionIds(sessions) : sessions[i].user_id = u /\ sessions[i].is_active}) <= 1

\* C11 (witness): a user with two sessions re-activated the older one, and
\* the other user has an active session too
C11_Witness ==
    /\ Len(sessions) = 3
    /\ sessions[1] # Gone /\ sessions[2] # Gone /\ sessions[3] # Gone
    /\ sessions[1].user_id = "A" /\ sessions[1].is_active
    /\ sessions[2].user_id = "A" /\ ~sessions[2].is_active
    /\ sessions[3].user_id = "B" /\ sessions[3].is_active

(***************************************************************************)
(* Streaks                                                                 *)
(***************************************************************************)
\* C12: for every user current_streak <= longest_streak after any sequence of
\* task creations, completion changes and adjustStreakAfterDate calls, and
\* longest_streak never decreases.
C12_CurrentAtMostLongest ==
    [][/\ \A i \in 1..Len(users') : users'[i].current_streak <= users'[i].longest_streak
       /\ \A i \in 1..Len(users) : users'[i].longest_streak >= users[i].longest_streak]_vars

\* C12 (witness): a streak of two days fell back to one day, the longest
\* streak stays two
C12_Witness ==
    /\ Len(users) = 1
    /\ users[1].current_streak = 1 /\ users[1].longest_streak = 2 /\ users[1].last_streak_date = 1

\* C13: a second adjustStreakAfterDate call for the same user and date, with
\* no task change in between, changes nothing the first call produced; for
\* a date already counted (all its tasks complete, last_streak_date = date)
\* the first call changes nothing either.
C13_AdjustIdempotent ==
    \A u \in Users, date \in {1, 2, 3} :
        LET once == AdjustStreak(users, tasks, u, date)
            dayTasks == FindByUserIdAndDateRange(tasks, u, date, date)
            i == FindUser(users, u)
        IN  /\ AdjustStreak(once, tasks, u, date) = once
            /\ (i # NoId /\ dayTasks # {} /\ AllCompleted(tasks, dayTasks) /\ users[i].last_streak_date = date)
                => once = users

\* C13 (witness): the second of two complete days is the day counted last,
\* and adjustStreakAfterDate has just been called for it again
C13_Witness ==
    /\ resp.op = "adjustStreakAfterDate" /\ resp.data.date = 2 /\ resp.status = 200
    /\ Len(users) = 1 /\ users[1].last_streak_date = 2 /\ users[1].current_streak = 2
    /\ FindByUserIdAndDateRange(tasks, "A", 2, 2) # {}
    /\ AllCompleted(tasks, FindByUserIdAndDateRange(tasks, "A", 2, 2))

\* C14: with a streak of three days over the dates 1, 2, 3 (one task a day,
\* all complete, current_streak = 3, last_streak_date = 3), once the task of
\* date 2 is marked incomplete the recalculation for date 2 yields
\* current_streak = 1 and last_streak_date = 1.
C14_RegressionRecomputed ==
    [][(/\ resp'.op = "adjustStreakAfterDate" /\ resp'.data.date = 2 /\ resp'.status = 200
        /\ Len(tasks) = 3
        /\ \A d \in {1, 2, 3} : Cardinality(FindByUserIdAndDateRange(tasks, "A", d, d)) = 1
        /\ \A id \in 1..3 : tasks[id].is_completed = (tasks[id].date # 2)
        /\ users[1].current_streak = 3 /\ users[1].last_streak_date = 3)
       => (users'[1].current_streak = 1 /\ users'[1].last_streak_date = 1)]_vars

(***************************************************************************)
(* Provider failures                                                       *)
(***************************************************************************)
\* C15: callGroqWithRetry issues at most MAX_RETRIES = 3 provider calls, at
\* the temperatures 0.5, 0.7, 0.9 in this order (each higher than the one
\* before, none above 1.0); a call is issued again only after a failure with
\* status 400 and code tool_use_failed; any other failure, and the third
\* tool_use_failed failure, is thrown at once, and chat answers 500.
C15_RetriesOnlyToolUseFailed ==
    Has(chat, "call") =>
        LET call == chat.call
            n == Len(call.issued)
            failed == Len(call.errors)
            toolUseFailed(k) == call.errors[k].status = 400 /\ call.errors[k].code = "tool_use_failed"
        IN  /\ n <= MAX_RETRIES
            /\ \A k \in 1..n : call.issued[k] = INITIAL_TEMPERATURE + 2 * (k - 1) /\ call.issued[k] <= 10
            /\ \A k \in 2..n : call.issued[k] > call.issued[k - 1]
            /\ \A k \in 1..(n - 1) : toolUseFailed(k)
            /\ call.result = "pending" => failed = n /\ n >= 1 /\ n < MAX_RETRIES /\ toolUseFailed(n)
            /\ call.result = "returned" => failed = n - 1
            /\ call.result = "thrown" =>
                  /\ failed = n
                  /\ ~toolUseFailed(n) \/ n = MAX_RETRIES
                  /\ chat.out = ErrorResponse /\ chat.out.status = 500
            /\ (failed = n /\ n >= 1 /\ (~toolUseFailed(n) \/ n = MAX_RETRIES)) => call.result = "thrown"

\* C15 (witness): three provider calls failed with tool_use_failed, the third
\* failure was thrown and chat answered 500
C15_Witness ==
    /\ Has(chat, "call")
    /\ chat.call.issued = <<5, 7, 9>>
    /\ chat.call.result = "thrown"
    /\ \A k \in 1..3 : chat.call.errors[k] = [status |-> 400, code |-> "tool_use_failed"]
    /\ chat.out = ErrorResponse

\* C16: when the provider call of a sendMessage fails with status 429, the
\* assistant message stored is the rate-limit text, not the generic error
\* text or the fallback text.
C16_RateLimitText ==
    [][\A u \in Users, sid \in SessionIds :
          (/\ resp'.op = "sendMessage" /\ resp'.status = 200
           /\ SendMessage(u, sid, "m", <<RateLimited>>))
          => messages'[Len(messages')].text =
                "I'm receiving too many requests right now. Please wait a moment and try again."]_vars

\* C17: when a confirmed update_task proposal changes is_completed of a task
\* from false to true, the request invokes adjustStreakAfterDate for the
\* requesting user and the date of the task (the users table after the
\* request is what the invocation yields); for every other confirmed action
\* it is not invoked.
C17_ConfirmAdjustsStreak ==
    [][\A u \in Users, body \in CompletionProposals :
          (/\ resp'.op = "aiConfirm" /\ resp'.status = 200
           /\ AiConfirmAction(u, body))
          => LET id == body.data.id
             IN  IF id \in 1..Len(tasks) /\ ~tasks[id].is_completed /\ tasks'[id].is_completed
                 THEN users' = AdjustStreak(users, tasks', u, tasks'[id].date)
                 ELSE users' = users]_vars

(***************************************************************************)
(* The task search                                                         *)
(***************************************************************************)
\* C18: executeGetTasks always returns: a result with an error field when
\* the store fails, else at most 10 records, each a task of the caller that
\* is not deleted; it changes no stored state.
C18_SearchReturnsOwnLiveTasks ==
    [][resp'.op = "get_tasks" =>
          LET result == resp'.data.result
          IN  /\ UNCHANGED <<requests, tasks, subtasks, users, sessions, messages, recentChats>>
              /\ Has(result, "error") \/ Has(result, "tasks")
              /\ Has(result, "tasks") =>
                    /\ Cardinality(result.tasks) <= 10
                    /\ result.found = Cardinality(result.tasks)
                    /\ \A i \in result.tasks :
                          /\ i \in 1..Len(tasks)
                          /\ tasks[i].user_id = resp'.data.userId
                          /\ ~tasks[i].is_deleted]_vars

\* C18 (witness): a search without filters returned 10 of the more than 10
\* tasks of the caller, while the other user has a task too
C18_Witness ==
    /\ resp.op = "get_tasks" /\ resp.data.args = <<>> /\ resp.data.userId = "A"
    /\ Has(resp.data.result, "tasks") /\ resp.data.result.found = 10
    /\ Cardinality(FindByUserId(tasks, "A")) > 10
    /\ \E i \in 1..Len(tasks) : tasks[i].user_id = "B" /\ ~tasks[i].is_deleted

\* C19: with startDate and endDate every task returned has startDate <= date
\* <= endDate; otherwise, whenever a date is given (also with only one of
\* startDate and endDate), every task returned is of that date; with a
\* query, every task returned has it in its title or description, whatever
\* the case of the letters.
C19_DateFilters ==
    (resp.op = "get_tasks" /\ Has(resp.data.result, "tasks")) =>
        LET args == resp.data.args
        IN  \A i \in resp.data.result.tasks :
              /\ IF Has(args, "startDate") /\ Has(args, "endDate")
                 THEN args.startDate <= tasks[i].date /\ tasks[i].date <= args.endDate
                 ELSE Has(args, "date") => tasks[i].date = args.date
              /\ Has(args, "query") =>
                    \/ Includes(ToLowerCase(tasks[i].title), ToLowerCase(args.query))
                    \/ /\ Get(tasks[i], "description", Null) # Null
                       /\ Includes(ToLowerCase(tasks[i].description), ToLowerCase(args.query))

\* C20: every task that findById, findByUserId and findByUserIdAndDateRange
\* return has is_deleted = false; hence a deleted task is not counted by the
\* streak recalculation (which yields what it yields without the deleted
\* rows) and is not returned by the search tool.
C20_ReadsSkipDeleted ==
    LET live == [i \in 1..Len(tasks) |->
                    IF tasks[i].is_deleted THEN [tasks[i] EXCEPT !.user_id = Null] ELSE tasks[i]]
    IN  /\ \A id \in TaskIds : FindById(tasks, id) # NoId => ~tasks[id].is_deleted
        /\ \A u \in Users :
              /\ \A i \in FindByUserId(tasks, u) : ~tasks[i].is_deleted
              /\ \A i \in FindByUserIdAndDateRange(tasks, u, 1, Today) : ~tasks[i].is_deleted
              /\ \A date \in 1..Today : AdjustStreak(users, tasks, u, date) = AdjustStreak(users, live, u, date)
        /\ resp.op = "get_tasks" => \A i \in resp.data.result.tasks : ~tasks[i].is_deleted

\* C20 (witness): the only task of a day was completed and counted, then
\* deleted; the recalculation for the day and a search have run since
C20_Witness ==
    /\ Len(users) = 1 /\ users[1].last_streak_date = 1
    /\ Len(tasks) >= 1
    /\ tasks[1].user_id = "A" /\ tasks[1].is_deleted /\ tasks[1].is_completed /\ tasks[1].date = 1
    /\ resp.op = "get_tasks" /\ resp.data.userId = "A" /\ resp.data.args = [date |-> 1]
    /\ resp.data.result.found = 0

C22_FailureReported ==
    [][\A mid \in ProposalMessageIds :
          (/\ resp'.op = "confirmAction" /\ resp'.status = 200
           /\ Len(messages') = Len(messages) + 1
           /\ messages'[mid].confirmation # messages[mid].confirmation
           /\ ExecFails(tasks, messages'[mid].confirmation.action, messages'[mid].confirmation.data))
          => messages'[Len(messages')].text = "Failed to execute the action. Please try again."]_vars

\* C29: a confirm request refused with 403, because the requester does not
\* own the session of the message, leaves the stored confirmation of every
\* message (action, data, confirmed, cancelled) as it was.
C29_RejectedLeavesProposal ==
    [][(resp'.op = "confirmAction" /\ resp'.status = 403)
       => \A mid \in 1..Len(messages) : messages'[mid].confirmation = messages[mid].confirmation]_vars

(***************************************************************************)
(* The rounds and the outcomes of the agent loop                           *)
(***************************************************************************)
\* C23: a round whose response has tool calls appends the assistant message
\* carrying the tool calls first, then exactly one tool message per call, in
\* the order of the calls, each tagged with the id and name of its call; a
\* call of an unknown tool gets an error result and the round goes on; the
\* conversation of the next model call holds all the messages of the round.
C23_RoundAppendsResultsInOrder ==
    [][(chat'.iteration = chat.iteration + 1 /\ chat'.round # <<>>)
       => LET round == chat'.round
              calls == round[1].tool_calls
          IN  /\ round[1].role = "assistant" /\ calls # <<>>
              /\ Len(round) = 1 + Len(calls)
              /\ chat'.nMessages = chat.nMessages + Len(round)
              /\ chat'.out # ErrorResponse
              /\ \A i \in 1..Len(calls) :
                    /\ round[i + 1].role = "tool"
                    /\ round[i + 1].tool_call_id = calls[i].id
                    /\ round[i + 1].name = calls[i].name
                    /\ calls[i].name \notin {"get_tasks", "propose_action"}
                          <=> round[i + 1].content = [error |-> "Unknown function"]]_vars

\* C23 witness: a round of two calls, an unknown tool then get_tasks, has
\* appended three messages and the loop goes on to the next model call
C23_Witness ==
    /\ chat.out = NoOut /\ Len(chat.round) = 3
    /\ chat.round[2].name = "search_web" /\ chat.round[2].tool_call_id = 1
    /\ chat.round[2].content = [error |-> "Unknown function"]
    /\ chat.round[3].name = "get_tasks" /\ chat.round[3].tool_call_id = 2

\* C24: a chat invocation sends exactly one response, of one of four kinds:
\* the text of the first round without tool calls (the content, or the
\* generic acknowledgement when the content is empty), a confirmation_request
\* in the first round in which propose_action was called, the max_iterations
\* fallback after MAX_ITERATIONS rounds of tool calls, or the error.  It is a
\* confirmation_request exactly when the model called propose_action, and
\* rounds of get_tasks only followed by a text make no proposal.
C24_OneOutcome ==
    [][/\ (chat.out # NoOut /\ chat'.out # chat.out) => chat' = ChatStart(chat'.userId, 0)
       /\ (chat.out = NoOut /\ chat'.out # NoOut)
          => LET out == chat'.out
                 proposed == \E i \in 1..Len(chat'.round) :
                                chat'.round[i].role = "tool" /\ chat'.round[i].name = "propose_action"
             IN  /\ chat.proposal = NoProposal
                 /\ \/ out = ErrorResponse
                    \/ out = MaxIterationsResponse
                    \/ out.type = "confirmation_request"
                    \/ out.type = "text" /\ out.text \in {"hi", "I've processed your request."}
                 /\ out.type = "confirmation_request" <=> proposed
                 /\ out.type = "confirmation_request" <=> chat'.proposal # NoProposal
                 /\ out = MaxIterationsResponse
                       <=> (chat'.iteration = chat.iteration /\ chat.iteration = MAX_ITERATIONS)
                 /\ (out.type = "text" /\ out # MaxIterationsResponse)
                       => (chat'.iteration = chat.iteration + 1 /\ chat'.round = <<>>)
                 /\ out = ErrorResponse => chat'.round = <<>>]_vars

\* C24 witness: the model read the tasks in the first round and called
\* propose_action in the second; the invocation ended with the
\* confirmation_request
C24_Witness ==
    /\ chat.iteration = 2 /\ chat.out.type = "confirmation_request"
    /\ chat.out.action = "delete_task" /\ chat.proposal # NoProposal

\* C24 witness: ten rounds of tool calls without a proposal ended in the
\* max_iterations fallback
C24_WitnessFallback == chat.iteration = MAX_ITERATIONS /\ chat.out = MaxIterationsResponse

(***************************************************************************)
(* The streak steps                                                        *)
(***************************************************************************)
\* C25: adjustStreakAfterDate for a date d that has at least one task of the
\* user, all complete, and is not the day counted last sets current_streak to
\* the old value plus one when last_streak_date is the day before d and to 1
\* otherwise, longest_streak to the larger of its old value and the new
\* current_streak, and last_streak_date to d; for a date on which the user
\* has no task it changes nothing.
C25_CompletedDayCounted ==
    [][\A d \in 1..(Today + 1) :
          (/\ resp'.op = "adjustStreakAfterDate" /\ resp'.data.date = d /\ resp'.status = 200
           /\ Len(users) = 1 /\ users[1].firebase_uid = "A")
          => LET old == users[1]
                 new == users'[1]
                 dayTasks == {i \in 1..Len(tasks) :
                                 tasks[i].user_id = "A" /\ tasks[i].date = d /\ ~tasks[i].is_deleted}
             IN  /\ dayTasks = {} => new = old
                 /\ (/\ dayTasks # {} /\ \A i \in dayTasks : tasks[i].is_completed
                     /\ old.last_streak_date # d)
                    => /\ new.current_streak = IF old.last_streak_date # NoDate /\ old.last_streak_date + 1 = d
                                                THEN old.current_streak + 1 ELSE 1
                       /\ new.longest_streak = Max(old.longest_streak, new.current_streak)
                       /\ new.last_streak_date = d]_vars

\* C25 witness: the third day was counted right after the second, then the
\* first day was counted on its own: the streak restarted at 1, the longest
\* streak stays 2
C25_Witness ==
    /\ resp.op = "adjustStreakAfterDate" /\ resp.data.date = 1 /\ resp.status = 200
    /\ Len(users) = 1 /\ users[1].last_streak_date = 1
    /\ users[1].current_streak = 1 /\ users[1].longest_streak = 2

\* C26: adjustStreakAfterDate for the day d counted last, when a task of d is
\* incomplete, ends and sets current_streak to n, the number of consecutive
\* days before d that each have a task and only complete tasks,
\* longest_streak to the larger of its old value and n, and last_streak_date
\* to the day before d when n > 0 and to null when n = 0.
C26_RegressedDayRecounted ==
    [][\A d \in 1..(Today + 1) :
          (/\ resp'.op = "adjustStreakAfterDate" /\ resp'.data.date = d /\ resp'.status = 200
           /\ Len(users) = 1 /\ users[1].firebase_uid = "A"
           /\ users[1].last_streak_date = d
           /\ \E i \in 1..Len(tasks) : /\ tasks[i].user_id = "A" /\ tasks[i].date = d
                                        /\ ~tasks[i].is_deleted /\ ~tasks[i].is_completed)
          => LET good(day) == /\ \E i \in 1..Len(tasks) :
                                    tasks[i].user_id = "A" /\ tasks[i].date = day /\ ~tasks[i].is_deleted
                              /\ \A i \in 1..Len(tasks) :
                                    (tasks[i].user_id = "A" /\ tasks[i].date = day /\ ~tasks[i].is_deleted)
                                    => tasks[i].is_completed
                 n == CHOOSE k \in 0..(d - 1) :
                         /\ \A j \in 1..k : good(d - j)
                         /\ k = d - 1 \/ ~good(d - k - 1)
             IN  /\ users'[1].current_streak = n
                 /\ users'[1].longest_streak = Max(users[1].longest_streak, n)
                 /\ users'[1].last_streak_date = IF n > 0 THEN d - 1 ELSE NoDate]_vars

\* C26 witness: three days were counted, a task of the third day became
\* incomplete and the recalculation for the third day left a streak of the
\* two days before it
C26_Witness ==
    /\ resp.op = "adjustStreakAfterDate" /\ resp.data.date = 3 /\ resp.status = 200
    /\ Len(users) = 1 /\ users[1].last_streak_date = 2
    /\ users[1].current_streak = 2 /\ users[1].longest_streak = 3
    /\ \E i \in 1..Len(tasks) : tasks[i].date = 3 /\ ~tasks[i].is_completed

\* C28: the streak fields never drift from the tasks: a completed task
\* request (create, update with is_completed changed either way, delete,
\* subtask update) made while, for every user, the day counted last has a
\* task that is not deleted and only complete tasks, leaves it so.
C28_StreakNeverDrifts ==
    [][LET counted(us, ts) ==
               \A i \in 1..Len(us) :
                   us[i].last_streak_date # NoDate
                   => LET dayTasks == {t \in 1..Len(ts) : /\ ts[t].user_id = us[i].firebase_uid
                                                          /\ ts[t].date = us[i].last_streak_date
                                                          /\ ~ts[t].is_deleted}
                      IN  dayTasks # {} /\ \A t \in dayTasks : ts[t].is_completed
       IN  (/\ resp'.op \in {"createTask", "updateTask", "deleteTask", "updateSubtask"}
            /\ resp'.status \in {200, 201}
            /\ counted(users, tasks))
           => counted(users', tasks')]_vars

(***************************************************************************)
(* Recent chats                                                            *)
(***************************************************************************)
\* C27: after any sequence of addRecentChat calls made one after the other,
\* every user has at most 10 recent chats, no two of them with the same
\* query (adding a query again refreshes its row), and the rows kept are the
\* 10 queries added or refreshed last: a call puts its query first, drops the
\* oldest row only when the query is new and the user already has 10, keeps
\* the order of the others and touches no other user's rows.
C27_TenMostRecentKept ==
    [][/\ \A u \in Users :
             /\ Len(recentChats'[u]) <= RECENT_LIMIT
             /\ \A i, j \in 1..Len(recentChats'[u]) : recentChats'[u][i] = recentChats'[u][j] => i = j
       /\ resp'.op = "addRecentChat"
          => LET u == resp'.data.user_id
                 q == resp'.data.query
                 old == recentChats[u]
                 new == recentChats'[u]
                 Rows(list) == {list[i] : i \in 1..Len(list)}
                 Pos(list, x) == CHOOSE i \in 1..Len(list) : list[i] = x
                 full == Len(old) = RECENT_LIMIT /\ q \notin Rows(old)
             IN  /\ new # <<>> /\ new[1] = q
                 /\ \A v \in Users \ {u} : recentChats'[v] = recentChats[v]
                 /\ Rows(new) = (IF full THEN Rows(old) \ {old[Len(old)]} ELSE Rows(old)) \cup {q}
                 /\ \A i, j \in 2..Len(new) : i < j => Pos(old, new[i]) < Pos(old, new[j])]_vars

\* C27 witness: the user has 10 recent chats; the first query was refreshed
\* while twelve queries were added, so it is kept (and first), and the second
\* and the third query were dropped
C27_Witness ==
    LET list == recentChats["A"]
        Rows == {list[i] : i \in 1..Len(list)}
    IN  /\ resp.op = "addRecentChat" /\ resp.data.query = 1
        /\ Len(list) = RECENT_LIMIT /\ list[1] = 1
        /\ 12 \in Rows /\ 2 \notin Rows /\ 3 \notin Rows
        /\ recentChats["B"] = <<1>>

(***************************************************************************)
(* Deleted tasks                                                           *)
(***************************************************************************)
\* C30: soft deletion is permanent and freezes the task: once is_deleted is
\* true, no request (task update, sync, confirmation of update_task) sets it
\* back to false or changes any other field of the task.
C30_DeletedTaskFrozen ==
    [][\A id \in 1..Len(tasks) : tasks[id].is_deleted => tasks'[id] = tasks[id]]_vars

====
